---- MODULE Spec2Model ----
(***************************************************************************)
(* create-fself: conversion of an x86-64 ELF into an Orbis ELF (OELF) and  *)
(* the wrapping of that OELF into a fake signed ELF (fSELF).               *)
(*                                                                         *)
(* The model follows the driver (main): one action per call the driver     *)
(* makes, each action the whole callee.  Files are records of the regions  *)
(* the program writes; the input ELF is a record of the tables the program *)
(* reads from it.                                                          *)
(***************************************************************************)
EXTENDS Integers, Sequences, FiniteSets, TLC

VARIABLES
    inp,        \* command line, environment and input ELF of this run
    pc,         \* position of main
    exitCode,   \* process exit status, meaningful once pc = "exited"
    err,        \* the error that ended the run ("" when none)
    oelfFile,   \* the intermediate OELF file on disk
    fselfFile,  \* the final fSELF file on disk
    orbisElf,   \* the OrbisElf object
    g,          \* package-level variables of pkg/oelf
    seg,        \* DynlibData segment under construction (segmentData)
    selfEntries, \* package-level _selfEntries of pkg/fself
    first       \* what the first conversion of this process gave, <<>> during it

vars ==
    <<inp, pc, exitCode, err, oelfFile, fselfFile, orbisElf, g, seg, selfEntries, first>>

(***************************************************************************)
(* Bounds of the model                                                     *)
(***************************************************************************)
MaxNeeded == 2      \* longest DT_NEEDED list
MaxSyms == 2        \* longest dynamic symbol table
MaxExtraProgs == 1  \* program headers of types the tool does not know

(***************************************************************************)
(* Generic helpers                                                         *)
(***************************************************************************)
Range(s) == {s[i] : i \in 1..Len(s)}

Contains(slice, element) == \E i \in 1..Len(slice) : slice[i] = element

RECURSIVE SumSeq(_)
SumSeq(s) == IF s = <<>> THEN 0 ELSE Head(s) + SumSeq(Tail(s))

RECURSIVE SeqsUpTo(_, _)
SeqsUpTo(S, n) ==
    IF n = 0 THEN {<<>>}
    ELSE LET shorter == SeqsUpTo(S, n - 1)
         IN  shorter \cup {Append(s, x) : s \in {t \in shorter : Len(t) = n - 1}, x \in S}

NoDup(s) == \A i, j \in 1..Len(s) : i # j => s[i] # s[j]

\* align(val, align) for a power-of-two alignment
Align(val, a) == ((val + (a - 1)) \div a) * a

\* writePaddingBytes: -size & (align - 1)
PaddingBytes(size, a) == (a - (size % a)) % a

(***************************************************************************)
(* ELF constants (debug/elf and the package's constant tables)             *)
(***************************************************************************)
PT_LOAD == 1
PT_DYNAMIC == 2
PT_INTERP == 3
PT_NOTE == 4
PT_TLS == 7
PT_GNU_EH_FRAME == 1685382480   \* 0x6474e550
PT_GNU_STACK == 1685382481      \* 0x6474e551
PT_GNU_RELRO == 1685382482      \* 0x6474e552
PT_SCE_DYNLIBDATA == 1627389952 \* 0x61000000
PT_SCE_PROC_PARAM == 1627389953 \* 0x61000001
PT_SCE_MODULE_PARAM == 1627389954 \* 0x61000002
PT_SCE_RELRO == 1627389968      \* 0x61000010

PF_X == 1
PF_W == 2
PF_R == 4

SHN_UNDEF == 0
STB_LOCAL == 0
STB_GLOBAL == 1
STB_WEAK == 2
STT_NOTYPE == 0
STT_OBJECT == 1
STT_FUNC == 2
STT_SECTION == 3

\* symbol.Info >> 4 & 0xf
SymBind(info) == (info \div 16) % 16

(***************************************************************************)
(* The input ELF and the libraries on the search path                      *)
(***************************************************************************)
ProcParamName(isLib) ==
    IF isLib THEN ".data.sce_module_param" ELSE ".data.sce_process_param"

\* Section headers of the input (Offset, Addr, Size); inp.secs says which exist.
BaseAddr == 4194304  \* 0x400000, load address of the input's first byte
SecOff ==
    [s \in {".text", ".data.rel.ro", ".got.plt", ".data.sce_process_param",
            ".data.sce_module_param", ".data", ".bss"} |->
        CASE s = ".text" -> 16384            \* 0x4000
          [] s = ".data.rel.ro" -> 32768     \* 0x8000
          [] s = ".got.plt" -> 33024         \* 0x8100
          [] s = ".data.sce_process_param" -> 49152  \* 0xC000
          [] s = ".data.sce_module_param" -> 49152
          [] s = ".data" -> 49216            \* 0xC040
          [] s = ".bss" -> 49728]            \* 0xC240
SecSize ==
    [s \in DOMAIN SecOff |->
        CASE s = ".text" -> 4096
          [] s = ".data.rel.ro" -> 256
          [] s = ".got.plt" -> 64
          [] s = ".data.sce_process_param" -> 64
          [] s = ".data.sce_module_param" -> 64
          [] s = ".data" -> 512
          [] s = ".bss" -> 768]
Section(in, name) ==
    [Name |-> name, Offset |-> SecOff[name], Addr |-> BaseAddr + SecOff[name],
     Size |-> SecSize[name]]
HasSection(in, name) == name \in in.secs

InputSize == 65536  \* bytes in the input file

Prog(type, flags, off, filesz, memsz, al) ==
    [Type |-> type, Flags |-> flags, Off |-> off, Vaddr |-> BaseAddr + off,
     Paddr |-> BaseAddr + off, Filesz |-> filesz, Memsz |-> memsz, Align |-> al]

\* The program headers a linker gives the input, by the options of the layout.
\*   relro: "none"     no PT_GNU_RELRO
\*          "separate" PT_GNU_RELRO and a PT_LOAD of its own at the same offset
\*          "combined" PT_GNU_RELRO at the start of the PT_LOAD that also holds .data
InputProgs(roLoad, relro, stack, tls, extra) ==
    (IF roLoad THEN <<Prog(PT_LOAD, PF_R, 0, 4096, 4096, 4096)>> ELSE <<>>)
    \o <<Prog(PT_LOAD, PF_R + PF_X, 16384, 4096, 4096, 4096)>>
    \o (CASE relro = "separate" ->
                <<Prog(PT_LOAD, PF_R + PF_W, 32768, 320, 320, 4096),
                  Prog(PT_LOAD, PF_R + PF_W, 49152, 576, 1344, 4096)>>
          [] relro = "combined" ->
                <<Prog(PT_LOAD, PF_R + PF_W, 32768, 16960, 17728, 4096)>>
          [] OTHER ->
                <<Prog(PT_LOAD, PF_R + PF_W, 49152, 576, 1344, 4096)>>)
    \o <<Prog(PT_DYNAMIC, PF_R + PF_W, 33088, 256, 256, 8)>>
    \o (IF relro # "none" THEN <<Prog(PT_GNU_RELRO, PF_R, 32768, 320, 320, 1)>> ELSE <<>>)
    \o (IF tls THEN <<Prog(PT_TLS, PF_R, 32768, 16, 32, 16)>> ELSE <<>>)
    \o <<Prog(PT_GNU_EH_FRAME, PF_R, 20000, 64, 64, 4)>>
    \o (IF stack THEN <<Prog(PT_GNU_STACK, PF_R + PF_W, 0, 0, 0, 0)>> ELSE <<>>)
    \o [i \in 1..extra |-> Prog(PT_NOTE, PF_R, 512 + 32 * i, 32, 32, 4)]

Sym(name, section, bind, type, value) ==
    [Name |-> name, Section |-> section, Info |-> bind * 16 + type,
     Other |-> 0, Value |-> value, Size |-> IF value = 0 THEN 0 ELSE 8]

\* Kinds of dynamic symbols of the input
SymKinds ==
    { Sym("sK", SHN_UNDEF, STB_GLOBAL, STT_FUNC, 0),     \* defined by libkernel only
      Sym("sC", SHN_UNDEF, STB_GLOBAL, STT_FUNC, 0),     \* defined by libc only
      Sym("sB", SHN_UNDEF, STB_GLOBAL, STT_FUNC, 0),     \* defined by libkernel and libc
      Sym("sX", SHN_UNDEF, STB_GLOBAL, STT_FUNC, 0),     \* defined by no library
      Sym("", SHN_UNDEF, STB_LOCAL, STT_NOTYPE, 0),      \* undefined, empty name
      Sym("foo", 1, STB_GLOBAL, STT_FUNC, 4096),         \* defined by the input
      Sym("bar", 1, STB_WEAK, STT_OBJECT, 8192),
      Sym("zed", 1, STB_GLOBAL, STT_OBJECT, 0),
      Sym("loc", 1, STB_LOCAL, STT_OBJECT, 12288) }

\* Symbols whose name carries its NID
NidSymKinds ==
    { Sym("__PS4_NID_aBc_plus_minus", SHN_UNDEF, STB_GLOBAL, STT_FUNC, 0),
      Sym("__PS4_NID_ab_NID_cd", SHN_UNDEF, STB_GLOBAL, STT_FUNC, 0),
      Sym("__PS4_NID_x_minusy", 1, STB_GLOBAL, STT_FUNC, 4096) }

\* Libraries on the search path and the names in the symbol table of each
LibNames == {"libkernel.so", "libc.so", "libScePosix.so"}
\* A library whose name has the _stub that writeModuleTable removes
StubLibrary == "libSceFoo_stub.so"
LibSymbols ==
    [l \in LibNames \cup {StubLibrary} |->
        CASE l = "libkernel.so" -> {"sK", "sB", "", "__PS4_NID_aBc_plus_minus",
                                    "__PS4_NID_ab_NID_cd"}
          [] l = "libc.so" -> {"sC", "sB"}
          [] l = "libScePosix.so" -> {"sP"}
          [] l = StubLibrary -> {"sF"}]

\* strings.Replace(library, ".so", "", 1) on the names above
Purify(library) ==
    CASE library = "libkernel.so" -> "libkernel"
      [] library = "libc.so" -> "libc"
      [] library = "libScePosix.so" -> "libScePosix"
      [] library = StubLibrary -> "libSceFoo_stub"
      [] OTHER -> library

\* _extraLibraryToModule: libraries hosted by a module of another name
ExtraLibraryToModule(lib) ==
    IF lib = "libScePosix" THEN <<"libkernel">> ELSE <<>>

\* A region of 0x20 bytes: text followed by pad zero bytes
InterpreterBuff(interpreter) ==
    LET n == IF Len(interpreter) < 32 THEN Len(interpreter) ELSE 32
    IN  [text |-> SubSeq(interpreter, 1, n), pad |-> 32 - n]

Interpreter == "/system/common/lib/libkernel.so"
CodeBytes == [text |-> "machine code of the entry point.", pad |-> 0]

DefaultInput ==
    [ args |-> "ok",          \* what the command line and environment give
      isLib |-> FALSE,        \* -lib given (else -eboot)
      outGiven |-> FALSE,     \* -out given
      oldOelf |-> FALSE,      \* a file already exists at the intermediate path
      flaky |-> FALSE,        \* file operations may fail
      ident |-> "ok",         \* what the ELF identification says
      needed |-> <<"libkernel.so">>,
      onPath |-> LibNames,    \* libraries that exist on the search path
      dynsyms |-> <<>>,
      hasSymtab |-> TRUE,
      dynTags |-> {"DT_PLTGOT", "DT_PLTRELSZ"},
      pltgot |-> BaseAddr + SecOff[".got.plt"],   \* value of the DT_PLTGOT entry
      secs |-> {".text", ".data.rel.ro", ".got.plt", ".data.sce_process_param",
                ".data.sce_module_param", ".data", ".bss", ".rela.plt", ".rela.dyn"},
      progs |-> InputProgs(TRUE, "separate", TRUE, FALSE, 0),
      relaPlt |-> <<[Off |-> 33048, Info |-> [sym |-> 1, type |-> 7], Addend |-> 0]>>,
      relaDyn |-> <<[Off |-> 32768, Info |-> [sym |-> 0, type |-> 8], Addend |-> 4096]>>,
      textHead |-> CodeBytes,     \* the first 0x20 bytes of .text
      authInfo |-> "" ]           \* -authinfo, hex digits

NeededLists == {s \in SeqsUpTo(LibNames, MaxNeeded) : NoDup(s)}
SymLists == SeqsUpTo(SymKinds, MaxSyms)

\* Runs that differ in the command line, the files and the identification
DriverInputs ==
    { [DefaultInput EXCEPT !.args = a] : a \in {"noenv", "noin", "both", "neither"} }
    \cup
    { [DefaultInput EXCEPT !.isLib = l, !.outGiven = o, !.oldOelf = e, !.flaky = TRUE,
                           !.ident = id, !.progs = InputProgs(TRUE, r, TRUE, FALSE, 0)] :
        l \in BOOLEAN, o \in BOOLEAN, e \in BOOLEAN,
        id \in {"ok", "notelf", "bigendian", "machine", "class32"},
        r \in {"none", "separate"} }

\* Runs that differ in the libraries and the symbols
SymbolInputs ==
    { [DefaultInput EXCEPT !.isLib = l, !.needed = n, !.dynsyms = s] :
        l \in BOOLEAN, n \in NeededLists, s \in SymLists }
    \cup
    { [DefaultInput EXCEPT !.needed = n, !.onPath = p, !.hasSymtab = t, !.dynTags = d] :
        n \in NeededLists, p \in {LibNames, LibNames \ {"libc.so"}, LibNames \ {"libkernel.so"}},
        t \in BOOLEAN, d \in SUBSET {"DT_PLTGOT", "DT_PLTRELSZ"} }

\* Runs whose symbols carry their NID in the name
NidInputs ==
    { [DefaultInput EXCEPT !.isLib = l, !.dynsyms = s] :
        l \in BOOLEAN, s \in SeqsUpTo(NidSymKinds, MaxSyms) }

\* Runs that differ in the relocation sections: each present with an entry,
\* present and empty, or absent.  A dynamic table has DT_PLTRELSZ (and may have
\* DT_PLTGOT) unless there are no PLT relocations at all; an input may also
\* describe PLT relocations in its dynamic table without a section of the
\* name .rela.plt in its section table.
RelaInputs ==
    { [DefaultInput EXCEPT !.isLib = l, !.secs = DefaultInput.secs \ drop,
                           !.relaPlt = p, !.relaDyn = d, !.dynTags = t] :
        l \in BOOLEAN, drop \in SUBSET {".rela.plt", ".rela.dyn"},
        p \in {<<>>, DefaultInput.relaPlt}, d \in {<<>>, DefaultInput.relaDyn},
        t \in {{"DT_PLTGOT", "DT_PLTRELSZ"}, {"DT_PLTGOT"}, {}} }

CoherentRela(in) ==
    /\ "DT_PLTRELSZ" \notin in.dynTags => ~HasSection(in, ".rela.plt") /\ in.relaPlt = <<>>
    /\ ~HasSection(in, ".rela.dyn") => in.relaDyn = <<>>

\* Runs that differ in the program headers and sections
LayoutInputs ==
    { [DefaultInput EXCEPT !.isLib = l, !.outGiven = TRUE,
                           !.secs = DefaultInput.secs \ drop,
                           !.progs = InputProgs(ro, r, st, tls, x)] :
        l \in BOOLEAN, drop \in SUBSET {".data.rel.ro", ".bss"},
        ro \in BOOLEAN, r \in {"none", "separate", "combined"},
        st \in BOOLEAN, tls \in BOOLEAN, x \in 0..MaxExtraProgs }

\* Runs whose input has no .data section: the writable PT_LOAD holds the
\* param section and, when there is one, .bss
DataInputs ==
    { [DefaultInput EXCEPT !.isLib = l, !.secs = DefaultInput.secs \ ({".data"} \cup drop),
                           !.progs = InputProgs(TRUE, r, TRUE, FALSE, 0)] :
        l \in BOOLEAN, drop \in SUBSET {".bss"}, r \in {"separate", "combined"} }

\* Runs whose input has several headers of types the order does not know
NoteInputs ==
    { [DefaultInput EXCEPT !.isLib = l, !.outGiven = TRUE,
                           !.progs = InputProgs(TRUE, "separate", TRUE, tls,
                                                MaxExtraProgs + 1)] :
        l \in BOOLEAN, tls \in BOOLEAN }

\* Values of -authinfo: none, sixteen bytes, two bytes (fewer than the eight
\* that createSignature skips), and LongAuthLen bytes, which with the two
\* leading fields no longer fit in SELF_SIGNATURE_SIZE
RECURSIVE HexBytes(_)
HexBytes(n) ==
    IF n = 0 THEN ""
    ELSE IF n % 2 = 1 THEN "A5" \o HexBytes(n - 1)
    ELSE HexBytes(n \div 2) \o HexBytes(n \div 2)

LongAuthLen == 249

AuthInfos ==
    {"", "00112233445566778899AABBCCDDEEFF", "0011", HexBytes(LongAuthLen)}

\* Runs that differ in the DT_PLTGOT entry of the dynamic table (absent, zero,
\* the address of .got.plt, another address) and in the .got.plt section
PltgotInputs ==
    { [DefaultInput EXCEPT !.isLib = l, !.secs = DefaultInput.secs \ drop,
                           !.dynTags = {"DT_PLTRELSZ"} \cup t, !.pltgot = v] :
        l \in BOOLEAN, drop \in SUBSET {".got.plt"}, t \in SUBSET {"DT_PLTGOT"},
        v \in {0, BaseAddr + SecOff[".got.plt"], BaseAddr + SecOff[".data"]} }

\* Runs that differ in what the input has at the start of .text
TextInputs ==
    { [DefaultInput EXCEPT !.isLib = l, !.outGiven = o, !.textHead = h] :
        l \in BOOLEAN, o \in BOOLEAN, h \in {CodeBytes, InterpreterBuff(Interpreter)} }

AuthInputs ==
    { [DefaultInput EXCEPT !.isLib = l, !.authInfo = a] :
        l \in BOOLEAN, a \in AuthInfos }

\* Runs with a symbol of libScePosix, a library hosted by the module libkernel
PosixSym == Sym("sP", SHN_UNDEF, STB_GLOBAL, STT_FUNC, 0)
PosixInputs ==
    { [DefaultInput EXCEPT !.isLib = l, !.needed = n, !.dynsyms = s] :
        l \in BOOLEAN,
        n \in {<<"libkernel.so", "libScePosix.so">>,
               <<"libkernel.so", "libc.so", "libScePosix.so">>},
        s \in {<<PosixSym>>,
               <<PosixSym, Sym("sK", SHN_UNDEF, STB_GLOBAL, STT_FUNC, 0)>>,
               <<Sym("sC", SHN_UNDEF, STB_GLOBAL, STT_FUNC, 0), PosixSym>>} }

\* Runs that need a library with _stub in its name
StubInputs ==
    { [DefaultInput EXCEPT !.isLib = l, !.needed = n, !.dynsyms = s,
                           !.onPath = LibNames \cup {StubLibrary}] :
        l \in BOOLEAN,
        n \in {<<"libkernel.so", StubLibrary>>,
               <<"libkernel.so", StubLibrary, "libScePosix.so">>,
               <<"libkernel.so", "libScePosix.so", StubLibrary>>},
        s \in {<<PosixSym>>,
               <<Sym("sF", SHN_UNDEF, STB_GLOBAL, STT_FUNC, 0)>>,
               <<Sym("sF", SHN_UNDEF, STB_GLOBAL, STT_FUNC, 0), PosixSym>>} }

Inputs ==
    PosixInputs \cup StubInputs \cup DriverInputs \cup SymbolInputs \cup LayoutInputs \cup NidInputs
    \cup {in \in RelaInputs : CoherentRela(in)} \cup AuthInputs
    \cup TextInputs \cup DataInputs \cup NoteInputs
    \cup {in \in PltgotInputs : "DT_PLTGOT" \notin in.dynTags => in.pltgot = 0}

(***************************************************************************)
(* Strings                                                                 *)
(***************************************************************************)
HasPrefix(s, prefix) ==
    Len(s) >= Len(prefix) /\ SubSeq(s, 1, Len(prefix)) = prefix

\* strings.Replace(s, old, new, -1)
RECURSIVE ReplaceAll(_, _, _)
ReplaceAll(s, old, new) ==
    IF Len(s) < Len(old) THEN s
    ELSE IF SubSeq(s, 1, Len(old)) = old
         THEN new \o ReplaceAll(SubSeq(s, Len(old) + 1, Len(s)), old, new)
         ELSE SubSeq(s, 1, 1) \o ReplaceAll(SubSeq(s, 2, Len(s)), old, new)

\* strings.Split(s, sep): the pieces of s between the occurrences of sep
RECURSIVE SplitFrom(_, _, _)
SplitFrom(s, sep, piece) ==
    IF Len(s) < Len(sep) THEN <<piece \o s>>
    ELSE IF SubSeq(s, 1, Len(sep)) = sep
         THEN <<piece>> \o SplitFrom(SubSeq(s, Len(sep) + 1, Len(s)), sep, "")
         ELSE SplitFrom(SubSeq(s, 2, Len(s)), sep, piece \o SubSeq(s, 1, 1))
Split(s, sep) == SplitFrom(s, sep, "")

(***************************************************************************)
(* OrderedMap: a list of (key, value) in insertion order                   *)
(***************************************************************************)
NewOrderedMap == <<>>
Keys(m) == [i \in 1..Len(m) |-> m[i].key]
Has(m, k) == \E i \in 1..Len(m) : m[i].key = k
Get(m, k) == m[CHOOSE i \in 1..Len(m) : m[i].key = k].val
Set(m, k, v) ==
    IF Has(m, k)
    THEN [i \in 1..Len(m) |-> IF m[i].key = k THEN [key |-> k, val |-> v] ELSE m[i]]
    ELSE Append(m, [key |-> k, val |-> v])

(***************************************************************************)
(* GenerateLibrarySymbolDictionary                                         *)
(***************************************************************************)
\* elf.File.ImportedLibraries, each reduced to its base name
ImportedLibraries(in) == in.needed
\* elf.File.DynamicSymbols (.dynsym) and elf.File.Symbols (.symtab); the inputs
\* of the model list the same symbols in both tables
DynamicSymbols(in) == in.dynsyms
Symbols(in) == in.dynsyms

\* OpenLibrary finds the library in one of the search directories
OpenLibrary(in, name) == name \in in.onPath

checkIfLibraryContainsSymbol(libraryObj, symbolName) ==
    symbolName \in LibSymbols[libraryObj]

\* "Swap libkernel with the first library to ensure it comes before anything else"
SwapLibkernel(libraries) ==
    IF Contains(libraries, "libkernel.so")
    THEN LET i == CHOOSE k \in 1..Len(libraries) :
                    /\ libraries[k] = "libkernel.so"
                    /\ \A j \in 1..(k - 1) : libraries[j] # "libkernel.so"
         IN  [libraries EXCEPT ![i] = libraries[1], ![1] = "libkernel.so"]
    ELSE libraries

\* The loop that creates the list of libraries, from library number i on.
\* acc = [status, objs (libraryObjs), lsd, lmd, mods (ModuleList)]
RECURSIVE CreateLibraryList(_, _, _, _)
CreateLibraryList(in, libraries, i, acc) ==
    IF i > Len(libraries) THEN acc
    ELSE IF libraries[i] = "libkernel.so"
         THEN CreateLibraryList(in, libraries, i + 1, acc)
    ELSE IF ~OpenLibrary(in, libraries[i])
         THEN [acc EXCEPT !.status = "LibraryNotFound"]
    ELSE LET purifiedLibrary == Purify(libraries[i])
             extra == ExtraLibraryToModule(purifiedLibrary)
             moduleName == IF extra # <<>> THEN extra[1] ELSE purifiedLibrary
         IN  CreateLibraryList(in, libraries, i + 1,
                [acc EXCEPT
                    !.objs = Append(@, libraries[i]),
                    !.lsd = Set(@, purifiedLibrary, <<>>),
                    !.mods = IF Contains(@, moduleName) THEN @ ELSE Append(@, moduleName),
                    !.lmd = Set(@, purifiedLibrary, moduleName)])

\* rolsd: the modules first, then the libraries that are no module
RECURSIVE SetAll(_, _, _)
SetAll(m, keys, skip) ==
    IF keys = <<>> THEN m
    ELSE SetAll(IF Contains(skip, Head(keys)) THEN m ELSE Set(m, Head(keys), <<>>),
                Tail(keys), skip)
\* The index left in the order in which the libraries were listed
Reorder_KeepsListing(moduleList, lsd) == lsd

Reorder(moduleList, lsd) ==
    SetAll(SetAll(NewOrderedMap, moduleList, <<>>), Keys(lsd), moduleList)

\* "Check all linked libraries for the symbol", from library object i on
RECURSIVE AttributeSymbol(_, _, _, _, _)
AttributeSymbol(symbolName, libraryObjs, libraries, i, acc) ==
    IF acc.status # "ok" \/ i > Len(libraryObjs) THEN acc
    ELSE IF ~checkIfLibraryContainsSymbol(libraryObjs[i], symbolName)
         THEN AttributeSymbol(symbolName, libraryObjs, libraries, i + 1, acc)
    ELSE IF i > Len(libraries)
         THEN [acc EXCEPT !.status = "panic"]   \* libraries[i]: index out of range
    ELSE LET library == Purify(libraries[i])
         IN  IF ~Has(acc.lsd, library)
             THEN [acc EXCEPT !.status = "panic"]   \* nil.([]string)
             ELSE AttributeSymbol(symbolName, libraryObjs, libraries, i + 1,
                    [acc EXCEPT !.lsd = Set(@, library, Append(Get(@, library), symbolName))])

RECURSIVE AttributeSymbols(_, _, _, _)
AttributeSymbols(symbols, libraryObjs, libraries, acc) ==
    IF symbols = <<>> \/ acc.status # "ok" THEN acc
    ELSE AttributeSymbols(Tail(symbols), libraryObjs, libraries,
            IF Head(symbols).Name = "_DYNAMIC" THEN acc
            ELSE AttributeSymbol(Head(symbols).Name, libraryObjs, libraries, 1, acc))

\* libkernel is left to the needed list
EnsureLibkernelFirst_Skipped(acc) == acc

\* "Ensure libkernel is the first library", when libkernel.so is found
EnsureLibkernelFirst(acc) ==
    [acc EXCEPT !.objs = Append(@, "libkernel.so"),
                !.lsd = Set(@, "libkernel", <<>>),
                !.lmd = Set(@, "libkernel", "libkernel"),
                !.mods = Append(@, "libkernel")]

\* The whole operation: [status, objs, lsd, lmd, mods]
GenerateLibrarySymbolDictionary(in) ==
    LET libraries == SwapLibkernel(ImportedLibraries(in))
        none == [status |-> "ok", objs |-> <<>>, lsd |-> NewOrderedMap,
                 lmd |-> NewOrderedMap, mods |-> <<>>]
    IN  IF ~OpenLibrary(in, "libkernel.so")
        THEN [none EXCEPT !.status = "LibraryNotFound"]
        ELSE LET listed == CreateLibraryList(in, libraries, 1, EnsureLibkernelFirst(none))
             IN  IF listed.status # "ok" THEN listed
                 ELSE LET rolsd == [listed EXCEPT !.lsd = Reorder(listed.mods, listed.lsd)]
                      IN  IF ~in.hasSymtab
                          THEN [rolsd EXCEPT !.status = "NoSymbols"]
                          ELSE AttributeSymbols(Symbols(in), rolsd.objs, libraries, rolsd)

(***************************************************************************)
(* String table                                                            *)
(***************************************************************************)
\* strings.Replace(s, old, new, 1)
RECURSIVE ReplaceFirst(_, _, _)
ReplaceFirst(s, old, new) ==
    IF Len(s) < Len(old) THEN s
    ELSE IF SubSeq(s, 1, Len(old)) = old
         THEN new \o SubSeq(s, Len(old) + 1, Len(s))
         ELSE SubSeq(s, 1, 1) \o ReplaceFirst(SubSeq(s, 2, Len(s)), old, new)

\* Bytes of a list of null-terminated strings
RECURSIVE BufLen(_)
BufLen(strs) == IF strs = <<>> THEN 0 ELSE Len(Head(strs)) + 1 + BufLen(Tail(strs))

\* uint64(len(buff.Bytes())) + 1 before each string is written, the buffer
\* holding `start` bytes before the first
StringOffsets(strs, start) ==
    [i \in 1..Len(strs) |-> start + BufLen(SubSeq(strs, 1, i - 1)) + 1]

\* _moduleToLibDictionary[moduleStr], else moduleStr + ".prx"
ModuleToLib(moduleStr) ==
    CASE moduleStr = "libSceFont" -> "libSceFont-module.prx"
      [] moduleStr = "libSceFontFt" -> "libSceFontFt-module.prx"
      [] OTHER -> moduleStr \o ".prx"

RECURSIVE SelectNotIn(_, _)
SelectNotIn(strs, moduleList) ==
    IF strs = <<>> THEN <<>>
    ELSE (IF Contains(moduleList, Head(strs)) THEN <<>> ELSE <<Head(strs)>>)
         \o SelectNotIn(Tail(strs), moduleList)

\* writeModuleTable: [strs, size, g]
writeModuleTable(moduleList, librarySymbolDictionary, g0) ==
    LET libraries == Keys(librarySymbolDictionary)
        libStrs == [i \in 1..Len(moduleList) |->
                        ModuleToLib(ReplaceFirst(moduleList[i], "_stub", ""))]
        modStrs == [i \in 1..Len(moduleList) |-> ReplaceFirst(moduleList[i], "_stub", "")]
        extraStrs == SelectNotIn([i \in 1..Len(libraries) |->
                                    ReplaceFirst(libraries[i], "stub", "")], moduleList)
        libOffsets == StringOffsets(libStrs, 0)
        modOffsets == StringOffsets(modStrs, BufLen(libStrs))
        extraOffsets == StringOffsets(extraStrs, BufLen(libStrs \o modStrs))
        all == libStrs \o modStrs \o extraStrs
    IN  [strs |-> all,
         size |-> BufLen(all),
         g |-> [g0 EXCEPT
                  !.libraryOffsets = @ \o libOffsets,
                  !.importedModuleOffsets = @ \o modOffsets,
                  !.importedLibraryOffsets = @ \o modOffsets \o extraOffsets,
                  !.offsetOfFileName = BufLen(all) + 1]]

\* The path of the input ELF as given on the command line, and
\* filepath.Base(fileName) without filepath.Ext(fileName)
InputFilePath == "in.elf"
BaseWithoutExt(fileName) == Split(fileName, ".")[1]

\* writeProjectMetaData: [strs, size, g]
writeProjectMetaData(fileName, libName, g0) ==
    LET projectName == IF libName # "" THEN libName ELSE BaseWithoutExt(fileName)
    IN  [strs |-> <<projectName, fileName>>,
         size |-> BufLen(<<projectName, fileName>>),
         g |-> [g0 EXCEPT !.offsetOfFileName = @ + Len(projectName) + 1]]

\* calculateNID: 8 bytes of a SHA-1 in base64 without the padding character
NidHashLen == 11

\* buildNIDEntry: the entry as the text before the first '#' (the hash of the
\* name, or the literal of a __PS4_NID_ name) and the two encoded ids
buildNIDEntry(symbolName, libraryId, moduleId) ==
    LET literal == HasPrefix(symbolName, "__PS4_NID_")
        nid == IF literal
               THEN ReplaceAll(ReplaceAll(Split(symbolName, "_NID_")[2], "_plus", "+"),
                               "_minus", "-")
               ELSE ""
    IN  [sym |-> symbolName, hashed |-> ~literal, nid |-> nid,
         lib |-> libraryId, mod |-> moduleId,
         size |-> (IF literal THEN Len(nid) ELSE NidHashLen) + 5]

\* Index (from 0) of the first element satisfying the test, -1 if none
FirstIndex(s, Test(_)) ==
    IF \E i \in 1..Len(s) : Test(s[i])
    THEN (CHOOSE i \in 1..Len(s) : Test(s[i]) /\ \A j \in 1..(i - 1) : ~Test(s[j])) - 1
    ELSE -1

\* Only symbols of global binding are exported
IsExported_GlobalOnly(symbol) ==
    SymBind(symbol.Info) = STB_GLOBAL /\ symbol.Value # 0

IsExported(symbol) ==
    /\ SymBind(symbol.Info) = STB_GLOBAL \/ SymBind(symbol.Info) = STB_WEAK
    /\ symbol.Value # 0

\* The NID entry of one undefined symbol: [status, entry]
ImportedNIDEntry(symbol, lsd, lmd, modules) ==
    LET HasSym(e) == Contains(e.val, symbol.Name)
        symbolLibraryIndex == FirstIndex(lsd, HasSym)
        none == buildNIDEntry(symbol.Name, 0, 0)
    IN  IF symbolLibraryIndex < 0
        THEN [status |-> "missing library for symbol", entry |-> none]
        ELSE LET libraryName == lsd[symbolLibraryIndex + 1].key
             IN  IF ~Has(lmd, libraryName)
                 THEN [status |-> "panic", entry |-> none]   \* nil.(string)
                 ELSE LET moduleName == Get(lmd, libraryName)
                          IsMod(m) == m = moduleName
                          symbolModuleIndex == FirstIndex(modules, IsMod)
                      IN  IF symbolModuleIndex < 0
                          THEN [status |-> "missing module for symbol", entry |-> none]
                          ELSE [status |-> "ok",
                                entry |-> buildNIDEntry(symbol.Name, 1 + symbolLibraryIndex,
                                                        1 + symbolModuleIndex)]

RECURSIVE ImportedNIDEntries(_, _, _, _)
ImportedNIDEntries(symbols, lsd, lmd, modules) ==
    IF symbols = <<>> THEN [status |-> "ok", entries |-> <<>>]
    ELSE IF Head(symbols).Section # SHN_UNDEF
         THEN ImportedNIDEntries(Tail(symbols), lsd, lmd, modules)
    ELSE LET e == ImportedNIDEntry(Head(symbols), lsd, lmd, modules)
             rest == ImportedNIDEntries(Tail(symbols), lsd, lmd, modules)
         IN  IF e.status # "ok" THEN [status |-> e.status, entries |-> <<>>]
             ELSE [rest EXCEPT !.entries = <<e.entry>> \o @]

RECURSIVE ExportedNIDEntries(_)
ExportedNIDEntries(moduleSymbols) ==
    IF moduleSymbols = <<>> THEN <<>>
    ELSE (IF IsExported(Head(moduleSymbols))
          THEN <<buildNIDEntry(Head(moduleSymbols).Name, 0, 0)>> ELSE <<>>)
         \o ExportedNIDEntries(Tail(moduleSymbols))

\* writeNIDTable: [status, entries, size]
writeNIDTable(in, isLibrary, lsd, lmd, modules) ==
    LET IsLibc(m) == m = "libc"
        libcModuleIndex == FirstIndex(modules, IsLibc)
        imported == ImportedNIDEntries(DynamicSymbols(in), lsd, lmd, modules)
        entries ==
            imported.entries
            \o (IF libcModuleIndex >= 0
                THEN <<buildNIDEntry("Need_sceLibc", 1 + libcModuleIndex, 1 + libcModuleIndex)>>
                ELSE <<>>)
            \o (IF isLibrary THEN ExportedNIDEntries(Symbols(in)) ELSE <<>>)
    IN  IF imported.status # "ok"
        THEN [status |-> imported.status, entries |-> <<>>, size |-> 0]
        ELSE [status |-> "ok", entries |-> entries,
              size |-> SumSeq([i \in 1..Len(entries) |-> entries[i].size])]

\* writeModuleStrings
ModuleStrings == <<"module_stop", "module_start">>

\* writeStringTable: [status, strs, nids, size, g], as the steps of the
\* operation from the last to the first
StringTableEnd(mt, pm, nt, g2, g3) ==
    IF nt.status # "ok"
    THEN [status |-> nt.status, strs |-> <<>>, nids |-> <<>>, size |-> 0, g |-> g2]
    ELSE [status |-> "ok",
          strs |-> mt.strs \o pm.strs,
          nids |-> nt.entries,
          size |-> g3.sizeOfStrTable + 1,
          g |-> g3]

StringTableNids(isLibrary, mt, pm, nt, g2) ==
    StringTableEnd(mt, pm, nt, g2,
                   [g2 EXCEPT !.sizeOfStrTable =
                        @ + nt.size + (IF isLibrary THEN BufLen(ModuleStrings) ELSE 0)])

StringTableMetaData(in, isLibrary, moduleList, lsd, lmd, mt, pm, g1) ==
    StringTableNids(isLibrary, mt, pm, writeNIDTable(in, isLibrary, lsd, lmd, moduleList),
                    [pm.g EXCEPT !.sizeOfStrTable = @ + pm.size,
                                 !.offsetOfNidTable = g1.sizeOfStrTable + pm.size + 1])

StringTableModules(in, isLibrary, projectName, libName, moduleList, lsd, lmd, mt, g1) ==
    StringTableMetaData(in, isLibrary, moduleList, lsd, lmd, mt,
                        writeProjectMetaData(projectName, libName, g1), g1)

StringTableStart(in, isLibrary, projectName, libName, moduleList, lsd, lmd, mt) ==
    StringTableModules(in, isLibrary, projectName, libName, moduleList, lsd, lmd, mt,
                       [mt.g EXCEPT !.sizeOfStrTable = mt.size,
                                    !.offsetOfProjectName = mt.size + 1])

writeStringTable(in, isLibrary, projectName, libName, moduleList, lsd, lmd, g0) ==
    StringTableStart(in, isLibrary, projectName, libName, moduleList, lsd, lmd,
                     writeModuleTable(moduleList, lsd, g0))

(***************************************************************************)
(* Symbol, relocation and hash tables                                      *)
(***************************************************************************)
Sym64(name, info, other, shndx, value, size) ==
    [Name |-> name, Info |-> info, Other |-> other, Shndx |-> shndx,
     Value |-> value, Size |-> size]
ZeroSym64 == Sym64(0, 0, 0, 0, 0, 0)

\* The entry of an undefined symbol that counts a placeholder as a symbol
ExternalSymbolEntry_CountsPlaceholder(symbol, offsetOfNidTable, numSymbols) ==
    IF symbol.Name # ""
    THEN [entry |-> Sym64(offsetOfNidTable + numSymbols * 16, symbol.Info, 0, 0, 0, 0),
          numSymbols |-> numSymbols + 1]
    ELSE [entry |-> ZeroSym64, numSymbols |-> numSymbols + 1]

\* The entry of one undefined symbol and the counter after it
ExternalSymbolEntry(symbol, offsetOfNidTable, numSymbols) ==
    IF symbol.Name # ""
    THEN [entry |-> Sym64(offsetOfNidTable + numSymbols * 16, symbol.Info, 0, 0, 0, 0),
          numSymbols |-> numSymbols + 1]
    ELSE [entry |-> ZeroSym64, numSymbols |-> numSymbols]

\* "Add external symbol entries": [entries, numSymbols]
RECURSIVE ExternalSymbolEntries(_, _, _)
ExternalSymbolEntries(symbols, offsetOfNidTable, numSymbols) ==
    IF symbols = <<>> THEN [entries |-> <<>>, numSymbols |-> numSymbols]
    ELSE IF Head(symbols).Section # SHN_UNDEF
         THEN ExternalSymbolEntries(Tail(symbols), offsetOfNidTable, numSymbols)
    ELSE LET one == ExternalSymbolEntry(Head(symbols), offsetOfNidTable, numSymbols)
             rest == ExternalSymbolEntries(Tail(symbols), offsetOfNidTable, one.numSymbols)
         IN  [rest EXCEPT !.entries = <<one.entry>> \o @]

\* "Add exported symbols for libraries": [entries, numSymbols]
RECURSIVE ExportedSymbolEntries(_, _, _)
ExportedSymbolEntries(moduleSymbols, offsetOfNidTable, numSymbols) ==
    IF moduleSymbols = <<>> THEN [entries |-> <<>>, numSymbols |-> numSymbols]
    ELSE IF IsExported(Head(moduleSymbols))
         THEN LET symbol == Head(moduleSymbols)
                  rest == ExportedSymbolEntries(Tail(moduleSymbols), offsetOfNidTable,
                                                numSymbols + 1)
              IN  [rest EXCEPT !.entries =
                        <<Sym64(offsetOfNidTable + numSymbols * 16, symbol.Info, symbol.Other,
                                symbol.Section, symbol.Value, symbol.Size)>> \o @]
         ELSE ExportedSymbolEntries(Tail(moduleSymbols), offsetOfNidTable, numSymbols)

\* writeSymbolTable: [entries, size, g]
writeSymbolTable(in, isLibrary, lsd, g0) ==
    LET leading == <<ZeroSym64, Sym64(0, STT_SECTION, 0, 0, 0, 0)>>
        external == ExternalSymbolEntries(DynamicSymbols(in), g0.offsetOfNidTable, 0)
        IsLibc(e) == e.key = "libc"
        libcModuleIndex == FirstIndex(lsd, IsLibc)
        needSceLibcIndex == IF libcModuleIndex >= 0 THEN external.numSymbols ELSE -1
        needLibc ==
            IF libcModuleIndex >= 0
            THEN <<Sym64(g0.offsetOfNidTable + needSceLibcIndex * 16,
                         STB_GLOBAL * 16 + STT_OBJECT, 0, 0, 0, 0)>>
            ELSE <<>>
        numSymbols1 == external.numSymbols + Len(needLibc)
        exported == IF isLibrary
                    THEN ExportedSymbolEntries(Symbols(in), g0.offsetOfNidTable, numSymbols1)
                    ELSE [entries |-> <<>>, numSymbols |-> numSymbols1]
        moduleStopOffset == exported.numSymbols * 16
        moduleStartOffset == moduleStopOffset + Len("module_stop") + 1
        weak == IF isLibrary
                THEN <<Sym64(g0.offsetOfNidTable + moduleStopOffset, STB_WEAK * 16, 0, 0, 0, 0),
                       Sym64(g0.offsetOfNidTable + moduleStartOffset, STB_WEAK * 16, 0, 0, 0, 0)>>
                ELSE <<>>
        entries == leading \o external.entries \o needLibc \o exported.entries \o weak
        sizeOfTable == Len(entries) * 24
    IN  [entries |-> entries,
         size |-> sizeOfTable,
         g |-> [g0 EXCEPT !.needSceLibcIndex = needSceLibcIndex,
                          !.numHashEntries = sizeOfTable \div 24]]

\* elf.Rela64; Info is kept as its two halves: the symbol index (the high 32
\* bits) and the relocation type (the low 32 bits)
Rela64(off, symIndex, type, addend) ==
    [Off |-> off, Info |-> [sym |-> symIndex, type |-> type], Addend |-> addend]
R_AMD64_64 == 1

\* OrbisElf.getSymbol: the symbol of that name, the empty symbol if none
getSymbol(in, name) ==
    LET symbols == Symbols(in)
    IN  IF \E i \in 1..Len(symbols) : symbols[i].Name = name
        THEN symbols[CHOOSE i \in 1..Len(symbols) : symbols[i].Name = name]
        ELSE Sym("", 0, 0, 0, 0)

\* writeObjectRelaEntry
writeObjectRelaEntry(offset, symbolIndex) ==
    Rela64(offset, symbolIndex, R_AMD64_64, 0)

\* Entries copied from a relocation section of the input
CopyRela(section) ==
    [i \in 1..Len(section) |->
        \* rInfo + (1 << 32)
        Rela64(section[i].Off, section[i].Info.sym + 1, section[i].Info.type,
               section[i].Addend)]

\* writeRelocationTable: [entries, size]
writeRelocationTable(in, isLibrary, g0) ==
    LET plt == IF HasSection(in, ".rela.plt") THEN CopyRela(in.relaPlt) ELSE <<>>
        dyn == IF HasSection(in, ".rela.dyn") THEN CopyRela(in.relaDyn) ELSE <<>>
        libc == IF g0.needSceLibcIndex >= 0
                THEN (IF ~isLibrary
                      THEN <<writeObjectRelaEntry(getSymbol(in, "_sceLibcParam").Value + 72,
                                                  g0.needSceLibcIndex + 2)>>
                      ELSE <<>>)
                     \o <<writeObjectRelaEntry(getSymbol(in, "_sceLibc").Value,
                                               g0.needSceLibcIndex + 2)>>
                ELSE <<>>
        entries == plt \o dyn \o libc
    IN  [entries |-> entries, size |-> Len(entries) * 24]

\* The hash table with a chain that does not end: the last entry points on
writeHashTable_NoTerminator(g0) ==
    LET n == g0.numHashEntries
        chains == IF n > 0 THEN <<0>> \o [i \in 1..(n - 1) |-> i + 1] ELSE <<>>
    IN  [nbucket |-> 1, nchain |-> n, buckets |-> <<1>>, chains |-> chains,
         size |-> 8 + 4 + 4 * Len(chains)]

\* writeHashTable: [nbucket, nchain, buckets, chains, size]
writeHashTable(g0) ==
    LET n == g0.numHashEntries
        chains == IF n > 0
                  THEN <<0>> \o [i \in 1..(n - 2) |-> i + 1] \o (IF 1 < n THEN <<0>> ELSE <<>>)
                  ELSE <<>>
    IN  [nbucket |-> 1, nchain |-> n, buckets |-> <<1>>, chains |-> chains,
         size |-> 8 + 4 + 4 * Len(chains)]

(***************************************************************************)
(* Dynamic table                                                           *)
(***************************************************************************)
\* One 16-byte entry; the 64-bit value is kept as its low and high 32 bits
DynEntry(tag, lo, hi) == [tag |-> tag, lo |-> lo, hi |-> hi]

\* OrbisElf.getDynamicTag: <<value>>, or <<>> when the input has no such tag
getDynamicTag(in, tag) ==
    IF tag \notin in.dynTags THEN <<>>
    ELSE CASE tag = "DT_PLTGOT" -> <<in.pltgot>>
           [] tag = "DT_PLTRELSZ" -> <<24 * Len(in.relaPlt)>>
           [] OTHER -> <<0>>

\* makeModuleTagValue: name | major << 32 | minor << 40 | id << 48
makeModuleTagValue(nameOffset, versionMajor, versionMinor, id) ==
    [lo |-> nameOffset, hi |-> versionMajor + versionMinor * 256 + id * 65536]
\* makeLibTagValue: name | version << 32 | id << 48
makeLibTagValue(nameOffset, version, id) ==
    [lo |-> nameOffset, hi |-> version + id * 65536]
\* makeLibAttrTagValue, makeModuleAttrTagValue: attr | id << 48
makeLibAttrTagValue(attr, id) == [lo |-> attr, hi |-> id * 65536]

RECURSIVE FlatSeq(_)
FlatSeq(ss) == IF ss = <<>> THEN <<>> ELSE Head(ss) \o FlatSeq(Tail(ss))

\* writeDynamicTable: [status, entries, size]
writeDynamicTable(in, isLibrary, tableOffsets, g0) ==
    LET E(tag, lo) == <<DynEntry(tag, lo, 0)>>
        V(tag, v) == <<DynEntry(tag, v.lo, v.hi)>>
        Optional(tag) ==
            LET val == getDynamicTag(in, tag)
            IN  IF val # <<>> /\ val[1] # 0 THEN E(tag, val[1]) ELSE <<>>
        noGot == tableOffsets.linkingTable = 0 /\ ~HasSection(in, ".got.plt")
        entries ==
            E("DT_SCE_HASH", tableOffsets.hashTable)
            \o E("DT_SCE_HASHSZ", tableOffsets.hashTableSz)
            \o E("DT_SCE_STRTAB", tableOffsets.stringTable)
            \o E("DT_SCE_STRSZ", tableOffsets.stringTableSz)
            \o E("DT_SCE_SYMTAB", tableOffsets.symbolTable)
            \o E("DT_SCE_SYMTABSZ", tableOffsets.symbolTableSz)
            \o E("DT_SCE_SYMENT", 24)
            \o E("DT_SCE_RELA", tableOffsets.relocationTable)
            \o E("DT_SCE_RELASZ", tableOffsets.relocationTableSz)
            \o E("DT_SCE_RELAENT", 24)
            \o E("DT_SCE_PLTGOT",
                 IF tableOffsets.linkingTable = 0
                 THEN (IF HasSection(in, ".got.plt") THEN Section(in, ".got.plt").Addr ELSE 0)
                 ELSE tableOffsets.linkingTable)
            \o E("DT_SCE_JMPREL", tableOffsets.jumpTable)
            \o E("DT_SCE_PLTRELSZ", tableOffsets.jumpTableSz)
            \o E("DT_SCE_PLTREL", 7)    \* elf.DT_RELA
            \o Optional("DT_INIT_ARRAY") \o Optional("DT_INIT_ARRAYSZ") \o Optional("DT_INIT")
            \o Optional("DT_FINI_ARRAY") \o Optional("DT_FINI_ARRAYSZ") \o Optional("DT_FINI")
            \o E("DT_DEBUG", 0)
            \o (IF ~isLibrary THEN E("DT_TEXTREL", 0) ELSE <<>>)
            \o E("DT_FLAGS", IF isLibrary THEN 0 ELSE 4)    \* elf.DF_TEXTREL
            \o [i \in 1..Len(g0.libraryOffsets) |->
                    DynEntry("DT_NEEDED", g0.libraryOffsets[i], 0)]
            \o [i \in 1..Len(g0.importedModuleOffsets) |->
                    V("DT_SCE_IMPORT_MODULE",
                      makeModuleTagValue(g0.importedModuleOffsets[i], 1, 1, i))[1]]
            \o (IF isLibrary
                THEN V("DT_SCE_EXPORT_LIB", makeLibTagValue(g0.offsetOfProjectName, 1, 0))
                     \o V("DT_SCE_EXPORT_LIB_ATTR", makeLibAttrTagValue(1, 0))
                ELSE <<>>)
            \o FlatSeq([i \in 1..Len(g0.importedLibraryOffsets) |->
                    V("DT_SCE_IMPORT_LIB", makeLibTagValue(g0.importedLibraryOffsets[i], 1, i))
                    \o V("DT_SCE_IMPORT_LIB_ATTR", makeLibAttrTagValue(9, i))])
            \o E("DT_SCE_FINGERPRINT", 0)
            \o E("DT_SCE_FILENAME", g0.offsetOfFileName)
            \o V("DT_SCE_EXPORT_MODULE", makeModuleTagValue(g0.offsetOfProjectName, 1, 1, 0))
            \o V("DT_SCE_MODULE_ATTR", makeLibAttrTagValue(0, 0))
            \o E("DT_NULL", 0)
    IN  IF noGot
        THEN [status |-> ".got.plt section must exist for SPRX", entries |-> <<>>, size |-> 0]
        ELSE [status |-> "ok", entries |-> entries, size |-> 16 * Len(entries)]

(***************************************************************************)
(* GenerateDynlibData                                                      *)
(***************************************************************************)
FingerprintSize == 24

NoTableOffsets ==
    [linkingTable |-> 0, stringTable |-> 0, stringTableSz |-> 0, symbolTable |-> 0,
     symbolTableSz |-> 0, jumpTable |-> 0, jumpTableSz |-> 0, relocationTable |-> 0,
     relocationTableSz |-> 0, hashTable |-> 0, hashTableSz |-> 0, dynamicTable |-> 0,
     dynamicTableSz |-> 0]

NoSegment ==
    [strs |-> <<>>, nids |-> <<>>, symbols |-> <<>>, relocations |-> <<>>,
     hash |-> [nbucket |-> 0, nchain |-> 0, buckets |-> <<>>, chains |-> <<>>, size |-> 0],
     dynamic |-> <<>>, tableOffsets |-> NoTableOffsets, size |-> 0]

\* GenerateDynlibData up to the write of the segment into the file, as the
\* steps of the operation from the last to the first.  Each step gets what the
\* steps before it computed and gives [status, dict, g, seg].
DynlibDataFail(status, dict, gg) ==
    [status |-> status, dict |-> dict, g |-> gg, seg |-> NoSegment]

DynlibDataEnd(dict, g1, st, sy, rt, ht, tableOffsets, dt) ==
    IF dt.status # "ok" THEN DynlibDataFail(dt.status, dict, sy.g)
    ELSE [status |-> "ok",
          dict |-> dict,
          g |-> [sy.g EXCEPT
                    !.offsetOfDynamic = g1.offsetOfDynlibData + tableOffsets.dynamicTable,
                    !.sizeOfDynamic = dt.size,
                    !.sizeOfDynlibData = tableOffsets.dynamicTable + dt.size],
          seg |-> [strs |-> st.strs, nids |-> st.nids, symbols |-> sy.entries,
                   relocations |-> rt.entries,
                   hash |-> ht,
                   dynamic |-> dt.entries,
                   tableOffsets |-> [tableOffsets EXCEPT !.dynamicTableSz = dt.size],
                   size |-> tableOffsets.dynamicTable + dt.size]]

DynlibDataDynamic(in, oe, dict, g1, st, sy, rt, ht, tableOffsets) ==
    DynlibDataEnd(dict, g1, st, sy, rt, ht, tableOffsets,
                  writeDynamicTable(in, oe.IsLibrary, tableOffsets, sy.g))

DynlibDataOffsets(in, oe, dict, g1, pltgot, pltrelsz, st, sy, rt, ht) ==
    LET stringTable == FingerprintSize
        size1 == stringTable + st.size
        symbolTable == size1 + PaddingBytes(size1, 8)
        jumpTable == symbolTable + sy.size
        hashTable == jumpTable + rt.size
        size2 == hashTable + ht.size
        dynamicTable == size2 + PaddingBytes(size2, 16)
    IN  DynlibDataDynamic(in, oe, dict, g1, st, sy, rt, ht,
            [linkingTable |-> pltgot[1], stringTable |-> stringTable,
             stringTableSz |-> st.size, symbolTable |-> symbolTable,
             symbolTableSz |-> sy.size, jumpTable |-> jumpTable,
             jumpTableSz |-> pltrelsz[1],
             relocationTable |-> jumpTable + pltrelsz[1],
             \* uint64 subtraction: a negative number here is the two's
             \* complement reading of the wrapped result, 2^64 + (the number)
             relocationTableSz |-> rt.size - pltrelsz[1],
             hashTable |-> hashTable, hashTableSz |-> ht.size,
             dynamicTable |-> dynamicTable, dynamicTableSz |-> 0])

DynlibDataRelocations(in, oe, dict, g1, pltgot, pltrelsz, st, sy) ==
    DynlibDataOffsets(in, oe, dict, g1, pltgot, pltrelsz, st, sy,
                      writeRelocationTable(in, oe.IsLibrary, sy.g), writeHashTable(sy.g))

DynlibDataSymbols(in, oe, dict, g1, pltgot, pltrelsz, st) ==
    IF st.status # "ok" THEN DynlibDataFail(st.status, dict, st.g)
    ELSE DynlibDataRelocations(in, oe, dict, g1, pltgot, pltrelsz, st,
                               writeSymbolTable(in, oe.IsLibrary, dict.lsd, st.g))

DynlibDataStrings(in, oe, dict, g1, pltgot, pltrelsz) ==
    DynlibDataSymbols(in, oe, dict, g1, pltgot, pltrelsz,
                      writeStringTable(in, oe.IsLibrary, oe.ElfToConvertName,
                                       oe.LibraryName, dict.mods, dict.lsd, dict.lmd, g1))

DynlibDataTags(in, oe, g0, dict, pltgot, pltrelsz) ==
    IF dict.status # "ok" THEN DynlibDataFail(dict.status, dict, g0)
    ELSE IF pltgot = <<>> \/ pltrelsz = <<>> THEN DynlibDataFail("MalformedInput", dict, g0)
    ELSE DynlibDataStrings(in, oe, dict, [g0 EXCEPT !.offsetOfDynlibData = oe.WrittenBytes],
                           pltgot, pltrelsz)

GenerateDynlibData(in, oe, g0) ==
    DynlibDataTags(in, oe, g0, GenerateLibrarySymbolDictionary(in),
                   getDynamicTag(in, "DT_PLTGOT"), getDynamicTag(in, "DT_PLTRELSZ"))

(***************************************************************************)
(* GenerateProgramHeaders                                                  *)
(***************************************************************************)
PageSize == 16384   \* 0x4000

\* OrbisElf.getProgramHeader: <<header>>, or <<>> (nil) when there is none
getProgramHeader(progs, headerType, headerFlags) ==
    LET Is(p) == p.Type = headerType /\ p.Flags = headerFlags
        i == FirstIndex(progs, Is)
    IN  IF i < 0 THEN <<>> ELSE <<progs[i + 1]>>

\* The first pass without the test for the .data.rel.ro section
FirstPass_KeepsRelro(progHeader, gnuRelroSegment, relroAlignedMemsz, hasRelroSection) ==
    IF progHeader.Type = PT_LOAD /\ progHeader.Flags = PF_R THEN <<>>
    ELSE IF /\ progHeader.Type = PT_LOAD /\ progHeader.Off = gnuRelroSegment.Off
            /\ ~(progHeader.Memsz > relroAlignedMemsz) THEN <<>>
    ELSE IF progHeader.Type = PT_GNU_STACK THEN <<>>
    ELSE IF progHeader.Type = PT_LOAD /\ progHeader.Off = gnuRelroSegment.Off
         THEN <<[progHeader EXCEPT
                    !.Off = @ + relroAlignedMemsz,
                    !.Vaddr = @ + relroAlignedMemsz,
                    !.Paddr = 0,
                    !.Filesz = IF @ < relroAlignedMemsz THEN 0 ELSE @ - relroAlignedMemsz,
                    !.Memsz = @ - relroAlignedMemsz]>>
    ELSE <<progHeader>>

\* First pass, one header: <<>> when it is dropped, else <<the header kept>>
FirstPass(progHeader, gnuRelroSegment, relroAlignedMemsz, hasRelroSection) ==
    IF progHeader.Type = PT_LOAD /\ progHeader.Flags = PF_R THEN <<>>
    ELSE LET atRelro == progHeader.Type = PT_LOAD /\ progHeader.Off = gnuRelroSegment.Off
             shrunk == [progHeader EXCEPT
                          !.Off = @ + relroAlignedMemsz,
                          !.Vaddr = @ + relroAlignedMemsz,
                          !.Paddr = 0,
                          !.Filesz = IF @ < relroAlignedMemsz THEN 0 ELSE @ - relroAlignedMemsz,
                          !.Memsz = @ - relroAlignedMemsz]
             header == IF atRelro THEN shrunk ELSE progHeader
         IN  IF atRelro /\ ~(progHeader.Memsz > relroAlignedMemsz) THEN <<>>
             ELSE IF header.Type = PT_GNU_RELRO /\ ~hasRelroSection THEN <<>>
             ELSE IF header.Type = PT_GNU_STACK THEN <<>>
             ELSE <<header>>

\* Second pass, one header
SecondPass(progHeader, in, procParamSection, g0) ==
    LET dyn == IF progHeader.Type = PT_DYNAMIC
               THEN [progHeader EXCEPT !.Off = g0.offsetOfDynamic,
                                       !.Vaddr = g0.offsetOfDynamic,
                                       !.Paddr = g0.offsetOfDynamic,
                                       !.Filesz = g0.sizeOfDynamic,
                                       !.Memsz = g0.sizeOfDynamic]
               ELSE progHeader
        relro == IF dyn.Type = PT_GNU_RELRO
                 THEN [dyn EXCEPT !.Type = PT_SCE_RELRO,
                                  !.Filesz = procParamSection.Offset - dyn.Off,
                                  !.Memsz = procParamSection.Offset - dyn.Off,
                                  !.Align = PageSize]
                 ELSE dyn
        aligned == IF relro.Type = PT_LOAD THEN [relro EXCEPT !.Align = PageSize] ELSE relro
        relroSection == Section(in, ".data.rel.ro")
        text == IF /\ aligned.Type = PT_LOAD
                   /\ aligned.Flags = PF_R + PF_X
                   /\ HasSection(in, ".data.rel.ro")
                THEN [aligned EXCEPT !.Filesz = relroSection.Offset - aligned.Off,
                                     !.Memsz = relroSection.Offset - aligned.Off]
                ELSE aligned
        dataSection == Section(in, ".data")
        bssSection == Section(in, ".bss")
        dataSize == (dataSection.Offset - procParamSection.Offset) + dataSection.Size
        dataMemSize ==
            (dataSection.Addr - procParamSection.Addr) + dataSection.Size
            + (IF HasSection(in, ".bss")
               THEN (bssSection.Addr - (dataSection.Addr + dataSection.Size)) + bssSection.Size
               ELSE 0)
    IN  IF text.Type = PT_LOAD /\ text.Flags = PF_R + PF_W
        THEN [text EXCEPT !.Off = procParamSection.Offset,
                          !.Vaddr = procParamSection.Addr,
                          !.Paddr = procParamSection.Addr,
                          !.Filesz = dataSize,
                          !.Memsz = dataMemSize]
        ELSE text

generateInterpreterHeader(interpreterOffset) ==
    [Type |-> PT_INTERP, Flags |-> PF_R, Vaddr |-> 0, Paddr |-> 0,
     Off |-> interpreterOffset, Filesz |-> 21, Memsz |-> 21, Align |-> 1]

generateSceProcParamHeader(isLibrary, offset, virtualAddr, size) ==
    [Type |-> IF isLibrary THEN PT_SCE_MODULE_PARAM ELSE PT_SCE_PROC_PARAM,
     Flags |-> PF_R, Vaddr |-> virtualAddr, Paddr |-> virtualAddr, Off |-> offset,
     Filesz |-> size, Memsz |-> size, Align |-> 8]

\* The header with the size of the segment as its offset
generateSceDynlibDataHeader_SizeFirst(offset, size) ==
    [Type |-> PT_SCE_DYNLIBDATA, Flags |-> PF_R, Vaddr |-> 0, Paddr |-> 0,
     Off |-> size, Filesz |-> offset, Memsz |-> 0, Align |-> 16]

generateSceDynlibDataHeader(offset, size) ==
    [Type |-> PT_SCE_DYNLIBDATA, Flags |-> PF_R, Vaddr |-> 0, Paddr |-> 0,
     Off |-> offset, Filesz |-> size, Memsz |-> 0, Align |-> 16]

progHeaderTypeOrder ==
    <<PT_LOAD, PT_SCE_RELRO, PT_LOAD, PT_SCE_PROC_PARAM, PT_SCE_MODULE_PARAM, PT_DYNAMIC,
      PT_INTERP, PT_TLS, PT_GNU_EH_FRAME, PT_SCE_DYNLIBDATA>>
MaxInt32 == 2147483647

\* The first PT_LOAD place taken by every PT_LOAD, whatever its flags
getProgramHeaderPriority_AnyLoadFirst(progHeaderOrder, progType, progFlags) ==
    LET hits == {i \in 1..Len(progHeaderOrder) : progHeaderOrder[i] = progType}
    IN  IF hits = {} THEN MaxInt32
        ELSE (CHOOSE i \in hits : \A j \in hits : i <= j) - 1

\* Index (from 0) in the order; the first PT_LOAD place is not for the R|W one
getProgramHeaderPriority(progHeaderOrder, progType, progFlags) ==
    LET hits == {i \in 1..Len(progHeaderOrder) :
                    /\ progHeaderOrder[i] = progType
                    /\ ~(progType = PT_LOAD /\ i = 1 /\ progFlags = PF_R + PF_W)}
    IN  IF hits = {} THEN MaxInt32
        ELSE (CHOOSE i \in hits : \A j \in hits : i <= j) - 1

\* programHeaderList.Less
Less(a, b) ==
    getProgramHeaderPriority(progHeaderTypeOrder, a.Type, a.Flags)
        < getProgramHeaderPriority(progHeaderTypeOrder, b.Type, b.Flags)

RemoveAt(s, i) == SubSeq(s, 1, i - 1) \o SubSeq(s, i + 1, Len(s))

\* sort.Sort orders by Less and promises nothing about the headers Less does not
\* order: every arrangement of the list in which no header is followed by one
\* that is Less than it
RECURSIVE SortOutcomes(_)
SortOutcomes(s) ==
    IF s = <<>> THEN {<<>>}
    ELSE LET firsts == {i \in 1..Len(s) : \A j \in 1..Len(s) : ~Less(s[j], s[i])}
         IN  UNION {{<<s[i]>> \o rest : rest \in SortOutcomes(RemoveAt(s, i))} : i \in firsts}

RECURSIVE MapFirstPass(_, _, _, _)
MapFirstPass(progs, gnuRelroSegment, relroAlignedMemsz, hasRelroSection) ==
    IF progs = <<>> THEN <<>>
    ELSE FirstPass(Head(progs), gnuRelroSegment, relroAlignedMemsz, hasRelroSection)
         \o MapFirstPass(Tail(progs), gnuRelroSegment, relroAlignedMemsz, hasRelroSection)

\* The headers before the sort: [status, progs].  A nil section or segment that
\* the operation dereferences ends the process (status "panic").
GenerateProgramHeadersUnsorted(in, oe, g0) ==
    LET procParamName == ProcParamName(oe.IsLibrary)
        procParamSection == Section(in, procParamName)
        relro == getProgramHeader(in.progs, PT_GNU_RELRO, PF_R)
    IN  IF relro = <<>> THEN [status |-> "panic", progs |-> <<>>]
        ELSE
        LET gnuRelroSegment == relro[1]
            relroAlignedMemsz == Align(gnuRelroSegment.Memsz, PageSize)
            kept == oe.ProgramHeaders
                    \o MapFirstPass(in.progs, gnuRelroSegment, relroAlignedMemsz,
                                    HasSection(in, ".data.rel.ro"))
            needsData == \E i \in 1..Len(kept) :
                            kept[i].Type = PT_LOAD /\ kept[i].Flags = PF_R + PF_W
        IN  IF \/ ~HasSection(in, procParamName)
               \/ needsData /\ ~HasSection(in, ".data")
               \/ ~oe.IsLibrary /\ ~HasSection(in, ".text")
            THEN [status |-> "panic", progs |-> <<>>]
            ELSE [status |-> "ok",
                  progs |->
                    [i \in 1..Len(kept) |-> SecondPass(kept[i], in, procParamSection, g0)]
                    \o <<generateSceProcParamHeader(oe.IsLibrary, procParamSection.Offset,
                                                    procParamSection.Addr,
                                                    procParamSection.Size),
                         generateSceDynlibDataHeader(g0.offsetOfDynlibData,
                                                     g0.sizeOfDynlibData)>>
                    \o (IF ~oe.IsLibrary
                        THEN <<generateInterpreterHeader(Section(in, ".text").Offset)>>
                        ELSE <<>>)]

(***************************************************************************)
(* Files                                                                   *)
(***************************************************************************)
\* A file: the bytes it was filled with (base, size) and the regions written
\* over them later, each <<>> until it is written
EmptyContent ==
    [base |-> "none", size |-> 0, ehdr |-> <<>>, sdkver |-> <<>>, phtab |-> <<>>,
     dynlib |-> <<>>, interp |-> <<>>, shdr |-> <<>>]
OldContent == [EmptyContent EXCEPT !.base = "old", !.size = 100]
NoFile == [exists |-> FALSE, content |-> EmptyContent]

\* os.Create: the file exists and is empty
Create(file) == [exists |-> TRUE, content |-> EmptyContent]

\* The ELF header of the input as binary.Read gives it
InputHeader ==
    [Type |-> "ET_EXEC", Entry |-> BaseAddr + 16384 + 32, Phoff |-> 64, Phentsize |-> 56,
     Phnum |-> 0, Shoff |-> 61440, Shentsize |-> 64, Shnum |-> 12, Shstrndx |-> 11]

(***************************************************************************)
(* CreateOrbisElf                                                          *)
(***************************************************************************)
NilOrbisElf ==
    [ProgramHeaders |-> <<>>, LibraryName |-> "", ElfToConvertName |-> "",
     ModuleList |-> <<>>, LibrarySymbolDictionary |-> NewOrderedMap,
     LibraryModuleDictionary |-> NewOrderedMap, WrittenBytes |-> 0, IsLibrary |-> FALSE,
     FinalFileOpen |-> FALSE]

\* validateInputELF: "" when the input passes
validateInputELF(in) ==
    CASE in.ident = "bigendian" -> "byte order must be little endian"
      [] in.ident = "machine" -> "architecture must be x86_64 / AMD64"
      [] in.ident = "class32" -> "elf must be a 64-bit elf"
      [] OTHER -> ""

\* [status, file, oe]: the error ("ok" when none), the file at outputFilePath
\* and the object
CreateOrbisElfOp(in, file, isLib, libName, createFails, writeFails) ==
    LET created == Create(file)
        oe == [NilOrbisElf EXCEPT !.LibraryName = libName,
                                  !.ElfToConvertName = InputFilePath,
                                  !.FinalFileOpen = TRUE]
    IN  IF in.ident = "notelf"
        THEN [status |-> "bad magic number", file |-> file, oe |-> NilOrbisElf]
        ELSE IF createFails
        THEN [status |-> "IOError", file |-> file, oe |-> NilOrbisElf]
        ELSE IF validateInputELF(in) # ""
        THEN [status |-> validateInputELF(in), file |-> created, oe |-> NilOrbisElf]
        ELSE IF writeFails
        THEN [status |-> "IOError", file |-> created, oe |-> NilOrbisElf]
        ELSE [status |-> "ok",
              file |-> [created EXCEPT !.content.base = "input", !.content.size = InputSize],
              oe |-> [oe EXCEPT !.IsLibrary = isLib, !.WrittenBytes = InputSize]]

(***************************************************************************)
(* Header rewrites                                                         *)
(***************************************************************************)
\* RewriteELFHeader keeping the program-header count of the input header
RewriteELFHeaderOp_KeepsPhnum(oe, inputHdr) ==
    [Type |-> IF oe.IsLibrary THEN "ET_SCE_DYNAMIC" ELSE "ET_SCE_EXEC_ASLR",
     Entry |-> IF oe.IsLibrary THEN 0 ELSE inputHdr.Entry,
     Phoff |-> 64,
     Phentsize |-> 56,
     Phnum |-> inputHdr.Phnum,
     Shoff |-> inputHdr.Shoff, Shentsize |-> inputHdr.Shentsize,
     Shnum |-> inputHdr.Shnum, Shstrndx |-> inputHdr.Shstrndx]

\* RewriteELFHeader: the header written at offset 0
RewriteELFHeaderOp(oe, inputHdr) ==
    [Type |-> IF oe.IsLibrary THEN "ET_SCE_DYNAMIC" ELSE "ET_SCE_EXEC_ASLR",
     Entry |-> IF oe.IsLibrary THEN 0 ELSE inputHdr.Entry,
     Phoff |-> 64,
     Phentsize |-> 56,
     Phnum |-> Len(oe.ProgramHeaders) % 65536,
     Shoff |-> inputHdr.Shoff, Shentsize |-> inputHdr.Shentsize,
     Shnum |-> inputHdr.Shnum, Shstrndx |-> inputHdr.Shstrndx]

\* OrbisElf.getFileOffsetBySectionName: <<offset>>, <<>> when there is no such section
getFileOffsetBySectionName(in, name) ==
    IF HasSection(in, name) THEN <<Section(in, name).Offset>> ELSE <<>>

\* RewriteProgramHeaders: the table written at offset 0x40
RewriteProgramHeadersOp(oe) ==
    [i \in 1..Len(oe.ProgramHeaders) |->
        [oe.ProgramHeaders[i] EXCEPT !.Align = IF oe.ProgramHeaders[i].Type = 7 THEN 32 ELSE @]]

\* RewriteInterpreter: [status, file]
RewriteInterpreter(in, file, interpreter, writeFails) ==
    LET rewriteOffset == getFileOffsetBySectionName(in, ".text")
    IN  IF rewriteOffset = <<>> THEN [status |-> "section not found", file |-> file]
        ELSE IF writeFails THEN [status |-> "IOError", file |-> file]
        ELSE [status |-> "ok",
              file |-> [file EXCEPT !.content.interp =
                            <<[off |-> rewriteOffset[1],
                               val |-> InterpreterBuff(interpreter)]>>]]

\* The section header table of the input: a header for each section of the
\* layout that the input has, and the header of .dynamic
SectionOrder ==
    <<".text", ".data.rel.ro", ".got.plt", ".data.sce_process_param",
      ".data.sce_module_param", ".data", ".bss">>
InputDynamicShdr ==
    [Type |-> "SHT_DYNAMIC", Off |-> 36864, Addr |-> BaseAddr + 36864, Size |-> 256]
InputSectionHeaders(in) ==
    LET names == SelectSeq(SectionOrder, LAMBDA n : HasSection(in, n))
    IN  [i \in 1..Len(names) |->
            [Type |-> IF names[i] = ".bss" THEN "SHT_NOBITS" ELSE "SHT_PROGBITS",
             Off |-> Section(in, names[i]).Offset, Addr |-> Section(in, names[i]).Addr,
             Size |-> Section(in, names[i]).Size]]
        \o <<InputDynamicShdr>>

\* RewriteDynamicSectionHeader: [status, file]; the first header of type
\* SHT_DYNAMIC is written back with the place of the new dynamic table
RewriteDynamicSectionHeader(in, file, g0, openFails, writeFails) ==
    LET hdrs == InputSectionHeaders(in)
        found == {i \in 1..Len(hdrs) : hdrs[i].Type = "SHT_DYNAMIC"}
        i == CHOOSE i \in found : \A j \in found : i <= j
    IN  IF openFails THEN [status |-> "IOError", file |-> file]
        ELSE IF found = {} THEN [status |-> "ok", file |-> file]
        ELSE IF writeFails THEN [status |-> "IOError", file |-> file]
        ELSE [status |-> "ok",
              file |-> [file EXCEPT !.content.shdr =
                            <<[index |-> i,
                               hdr |-> [hdrs[i] EXCEPT !.Off = g0.offsetOfDynamic,
                                                       !.Addr = g0.offsetOfDynamic,
                                                       !.Size = g0.sizeOfDynamic]]>>]]

SdkVer == 72384769  \* 0x4508101, the default of -sdkver

(***************************************************************************)
(* fSELF: entries                                                          *)
(***************************************************************************)
SELF_HEADER_SIZE == 32
SELF_ENTRY_SIZE == 32
SELF_ELF_HEADER_SIZE == 64
SELF_ELF_PROGHEADER_SIZE == 56
SELF_EXTENDED_HEADER_SIZE == 64
SELF_NPDRM_BLOCK_SIZE == 48
SELF_META_BLOCK_SIZE == 80
SELF_META_DATA_BLOCK_SIZE == 32
SELF_META_FOOTER_SIZE == 80
SELF_SIGNATURE_SIZE == 256
BLOCK_SIZE == 16384

\* The fields of an entry's Properties, each named by its bit constant
SELF_ENTRY_PROPERTY_BIT_SIGNED == "SIGNED"
SELF_ENTRY_PROPERTY_BIT_HASBLOCKS == "HASBLOCKS"
SELF_ENTRY_PROPERTY_BIT_HASDIGESTS == "HASDIGESTS"
SELF_ENTRY_PROPERTY_BIT_BLOCKSIZE == "BLOCKSIZE"
SELF_ENTRY_PROPERTY_BIT_SEGMENT_INDEX == "SEGMENT_INDEX"
NoProperties ==
    [b \in {"SIGNED", "HASBLOCKS", "HASDIGESTS", "BLOCKSIZE", "SEGMENT_INDEX"} |-> 0]

RECURSIVE BitOr(_, _)
BitOr(a, b) ==
    IF a = 0 THEN b
    ELSE IF b = 0 THEN a
    ELSE 2 * BitOr(a \div 2, b \div 2) + (IF a % 2 = 1 \/ b % 2 = 1 THEN 1 ELSE 0)

\* property |= (val & mask) << bit; every mask of the program is 2^k - 1
setProperty(property, bit, mask, val) ==
    [property EXCEPT ![bit] = BitOr(@, val % (mask + 1))]

RECURSIVE ilog2(_)
ilog2(val) == IF val < 2 THEN 0 ELSE 1 + ilog2(val \div 2)

IsSigned(prog) ==
    prog.Type = PT_LOAD \/ prog.Type = PT_SCE_RELRO \/ prog.Type = PT_SCE_DYNLIBDATA

SelfEntryInfo(properties) ==
    [Properties |-> properties, Offset |-> 0, FileSize |-> 0, MemorySize |-> 0,
     Data |-> <<>>]

\* A meta entry that names the loop counter itself
MetaEntry_OwnIndex(entryIndex) ==
    SelfEntryInfo(
        setProperty(
            setProperty(
                setProperty(NoProperties, SELF_ENTRY_PROPERTY_BIT_SIGNED, 1, 1),
                SELF_ENTRY_PROPERTY_BIT_HASDIGESTS, 1, 1),
            SELF_ENTRY_PROPERTY_BIT_SEGMENT_INDEX, 65535, entryIndex))

\* The meta entry made when the loop counter is entryIndex
MetaEntry(entryIndex) ==
    SelfEntryInfo(
        setProperty(
            setProperty(
                setProperty(NoProperties, SELF_ENTRY_PROPERTY_BIT_SIGNED, 1, 1),
                SELF_ENTRY_PROPERTY_BIT_HASDIGESTS, 1, 1),
            SELF_ENTRY_PROPERTY_BIT_SEGMENT_INDEX, 65535, entryIndex + 1))

\* The data entry made for the program header at index i (from 0)
DataEntry(i) ==
    SelfEntryInfo(
        setProperty(
            setProperty(
                setProperty(
                    setProperty(NoProperties, SELF_ENTRY_PROPERTY_BIT_SIGNED, 1, 1),
                    SELF_ENTRY_PROPERTY_BIT_HASBLOCKS, 1, 1),
                SELF_ENTRY_PROPERTY_BIT_BLOCKSIZE, 15, ilog2(BLOCK_SIZE) - 12),
            SELF_ENTRY_PROPERTY_BIT_SEGMENT_INDEX, 65535, i))

\* The loop with a counter that goes up by one for each signed segment
RECURSIVE CreateEntriesFrom_CountsSegments(_, _, _, _)
CreateEntriesFrom_CountsSegments(programHeaders, i, entryIndex, entries) ==
    IF i >= Len(programHeaders) THEN entries
    ELSE IF ~IsSigned(programHeaders[i + 1])
    THEN CreateEntriesFrom_CountsSegments(programHeaders, i + 1, entryIndex, entries)
    ELSE CreateEntriesFrom_CountsSegments(programHeaders, i + 1, entryIndex + 1,
                           entries \o <<MetaEntry(entryIndex), DataEntry(i)>>)

\* The loop of createSelfEntries from program header i (from 0) on
RECURSIVE CreateEntriesFrom(_, _, _, _)
CreateEntriesFrom(programHeaders, i, entryIndex, entries) ==
    IF i >= Len(programHeaders) THEN entries
    ELSE IF ~IsSigned(programHeaders[i + 1])
    THEN CreateEntriesFrom(programHeaders, i + 1, entryIndex, entries)
    ELSE CreateEntriesFrom(programHeaders, i + 1, entryIndex + 2,
                           entries \o <<MetaEntry(entryIndex), DataEntry(i)>>)

\* [entries, size]: _selfEntries afterwards and the number returned
createSelfEntries(programHeaders, entries0) ==
    LET entries == CreateEntriesFrom(programHeaders, 0, 0, entries0)
    IN  [entries |-> entries, size |-> Len(entries) * SELF_META_DATA_BLOCK_SIZE]

(***************************************************************************)
(* fSELF: CreateFSELF                                                      *)
(***************************************************************************)
\* sha256.Sum256, kept symbolic: equal digests only for equal bytes
Sha256(bytes) == [sha256 |-> bytes]

\* A read that misses the last write of the OELF stage
ReadFrom_Stale(file) == [file.content EXCEPT !.phtab = <<>>]

\* os.Open and ReadFrom: the bytes of the file as they stand
ReadFrom(file) == file.content

\* The first 0x40 bytes of the bytes read
HeaderBytes(in, bytes) ==
    IF bytes.ehdr # <<>> THEN bytes.ehdr[1]
    ELSE [InputHeader EXCEPT !.Phnum = Len(in.progs)]

\* elf.Open: the program headers that the header of the bytes announces
ElfProgs(in, bytes) ==
    IF bytes.ehdr = <<>> THEN in.progs
    ELSE [i \in 1..HeaderBytes(in, bytes).Phnum |->
            IF i <= Len(bytes.phtab) THEN bytes.phtab[i]
            ELSE IF i <= Len(in.progs) THEN in.progs[i]
            ELSE Prog(0, 0, 0, 0, 0, 0)]

\* createSignature: <<signature>>, <<>> when the slice of the decoded bytes
\* is out of range
createSignature(authInfo, paid) ==
    LET decodedLen == Len(authInfo) \div 2
        used == 16 + (decodedLen - 8)
    IN  IF decodedLen < 8 THEN <<>>
        ELSE <<[authLen |-> decodedLen, paid |-> paid,
                tail |-> SubSeq(authInfo, 17, 2 * decodedLen),
                size |-> used + PaddingBytes(used, 256)]>>

ZeroSignature ==
    [authLen |-> 0, paid |-> "", tail |-> "", size |-> SELF_SIGNATURE_SIZE]

\* prog.ReadAt(segmentData, 0) over the bytes read
ReadAtFails(prog, bytes) == prog.Filesz = 0 \/ prog.Off + prog.Filesz > bytes.size

\* The segment loop from program header i (from 1) on:
\* [status, entries, offset]
RECURSIVE ProcessSegments(_, _, _, _, _, _)
ProcessSegments(progs, bytes, i, entryIndex, offset, entries) ==
    IF i > Len(progs) THEN [status |-> "ok", entries |-> entries, offset |-> offset]
    ELSE IF ~IsSigned(progs[i])
    THEN ProcessSegments(progs, bytes, i + 1, entryIndex, offset, entries)
    ELSE
    LET prog == progs[i]
        numBlocks == Align(prog.Filesz, BLOCK_SIZE) \div BLOCK_SIZE
        metaSize == SELF_META_DATA_BLOCK_SIZE * numBlocks
        withMeta == [entries EXCEPT ![entryIndex + 1] =
                        [@ EXCEPT !.Data = <<[zero |-> metaSize]>>, !.Offset = offset,
                                  !.FileSize = metaSize, !.MemorySize = metaSize]]
        dataOffset == Align(offset + metaSize, 16)
        withData == [withMeta EXCEPT ![entryIndex + 2] =
                        [@ EXCEPT !.Data = <<[from |-> bytes, off |-> prog.Off,
                                              size |-> prog.Filesz]>>,
                                  !.Offset = dataOffset,
                                  !.FileSize = prog.Filesz, !.MemorySize = prog.Filesz]]
    IN  IF ReadAtFails(prog, bytes)
        THEN [status |-> "EOF", entries |-> withMeta, offset |-> dataOffset]
        ELSE ProcessSegments(progs, bytes, i + 1, entryIndex + 2,
                             Align(dataOffset + prog.Filesz, 16), withData)

EmptyFself ==
    [exists |-> FALSE, header |-> <<>>, entries |-> <<>>, ehdr |-> <<>>, phdrs |-> <<>>,
     extInfo |-> <<>>, signature |-> <<>>, sequential |-> 0, segments |-> <<>>]

\* The bytes that the writes of CreateFSELF before writeSegments put into the
\* file one after the other: the header (28 bytes as binary.Write lays it
\* out), the entries (32 bytes each), the ELF header (0x40 bytes, which
\* writeELFHeaders leaves out of the number it returns) and the program
\* headers (0x38 bytes each), the extended info (64 bytes), the control block
\* (48 bytes), the meta blocks, the footer (80 bytes) and the signature.  The
\* paddings are computed from the numbers returned.
SequentialBytes(numProgs, numEntries, sigSize) ==
    LET header == 28
        padded == header + PaddingBytes(header, 16)
        counted == padded + 32 * numEntries + 56 * numProgs
    IN  counted + 64 + PaddingBytes(counted, 16) + 64 + 48
        + SELF_META_BLOCK_SIZE * numEntries + 80 + sigSize

\* [status, file, entries]: the error ("ok" when none), the file at outputPath
\* and _selfEntries
CreateFSELFOp(in, oelf, out, entries0, authInfo, openFails, createFails) ==
    LET bytes == ReadFrom(oelf)
        sha256Digest == Sha256(bytes)
        progs == ElfProgs(in, bytes)
        created == [EmptyFself EXCEPT !.exists = TRUE]
        sig == IF authInfo # "" THEN createSignature(authInfo, "paid") ELSE <<ZeroSignature>>
        made == createSelfEntries(progs, entries0)
        headerSize ==
            Align(SELF_HEADER_SIZE + made.size + SELF_ELF_HEADER_SIZE
                  + Len(progs) * SELF_ELF_PROGHEADER_SIZE, 16)
            + SELF_EXTENDED_HEADER_SIZE + SELF_NPDRM_BLOCK_SIZE
        metaSize == Len(made.entries) * SELF_ENTRY_SIZE + SELF_META_FOOTER_SIZE
                    + SELF_SIGNATURE_SIZE
        done == ProcessSegments(progs, bytes, 1, 0, headerSize + metaSize, made.entries)
        \* writeSegments stops at the first entry that was given no data
        withData == {k \in 1..Len(done.entries) :
                        \A j \in 1..k : done.entries[j].Data # <<>>}
        written ==
            [exists |-> TRUE,
             header |-> <<[HeaderSize |-> headerSize % 65536,
                           MetaSize |-> metaSize % 65536,
                           FileSize |-> done.offset,
                           NumEntries |-> Len(done.entries) % 65536,
                           Flags |-> 34]>>,
             entries |-> [k \in 1..Len(done.entries) |->
                             [Properties |-> done.entries[k].Properties,
                              Offset |-> done.entries[k].Offset,
                              FileSize |-> done.entries[k].FileSize,
                              MemorySize |-> done.entries[k].MemorySize]],
             ehdr |-> <<HeaderBytes(in, bytes)>>,
             phdrs |-> progs,
             extInfo |-> <<[Paid |-> "paid", Type |-> "SELF_PTYPE_FAKE",
                            AppVersion |-> 0, FwVersion |-> 0,
                            Digest |-> sha256Digest]>>,
             signature |-> sig,
             sequential |-> SequentialBytes(Len(progs), Len(done.entries), sig[1].size),
             segments |-> [k \in 1..Cardinality(withData) |->
                             [Offset |-> done.entries[k].Offset,
                              Data |-> done.entries[k].Data]]]
    IN  IF openFails \/ ~oelf.exists
        THEN [status |-> "IOError", file |-> out, entries |-> entries0]
        ELSE IF createFails
        THEN [status |-> "IOError", file |-> out, entries |-> entries0]
        ELSE IF sig = <<>>
        THEN [status |-> "panic", file |-> created, entries |-> entries0]
        ELSE IF done.status # "ok"
        THEN [status |-> done.status, file |-> created, entries |-> done.entries]
        ELSE [status |-> IF Cardinality(withData) < Len(done.entries) THEN "panic" ELSE "ok",
              file |-> written, entries |-> done.entries]

(***************************************************************************)
(* The driver                                                              *)
(***************************************************************************)
ZeroGlobals ==
    [libraryOffsets |-> <<>>, importedLibraryOffsets |-> <<>>,
     importedModuleOffsets |-> <<>>, offsetOfProjectName |-> 0, offsetOfFileName |-> 0,
     offsetOfNidTable |-> 0, offsetOfDynlibData |-> 0, offsetOfDynamic |-> 0,
     sizeOfDynlibData |-> 0, sizeOfDynamic |-> 0, sizeOfStrTable |-> 0,
     needSceLibcIndex |-> 0, numHashEntries |-> 0]

Init ==
    /\ inp \in Inputs
    /\ pc = "main"
    /\ exitCode = 0
    /\ err = ""
    /\ oelfFile = [exists |-> inp.oldOelf,
                   content |-> IF inp.oldOelf THEN OldContent ELSE EmptyContent]
    /\ fselfFile = EmptyFself
    /\ orbisElf = NilOrbisElf
    /\ g = ZeroGlobals
    /\ seg = NoSegment
    /\ selfEntries = <<>>
    /\ first = <<>>

\* Whether a file operation of this run may fail
IoOutcomes == IF inp.flaky THEN BOOLEAN ELSE {FALSE}

\* errorExit: os.Exit(-1)
errorExit(message) ==
    /\ pc' = "exited"
    /\ exitCode' = 255
    /\ err' = message

\* A run-time panic ends the process with status 2
Panic ==
    /\ pc' = "exited"
    /\ exitCode' = 2
    /\ err' = "panic"

\* check(err) with err = nil: on to the next stage
Proceed(next) ==
    /\ pc' = next
    /\ UNCHANGED <<exitCode, err>>

isOelfTemp == ~inp.outGiven

\* main up to the first stage: the environment and the flags
ParseFlags ==
    /\ pc = "main"
    /\ IF inp.args = "ok" THEN Proceed("CreateOrbisElf") ELSE errorExit(inp.args)
    /\ UNCHANGED <<first, inp, oelfFile, fselfFile, orbisElf, g, seg, selfEntries>>

CreateOrbisElf ==
    /\ pc = "CreateOrbisElf"
    /\ \E createFails \in IoOutcomes, writeFails \in IoOutcomes :
        LET r == CreateOrbisElfOp(inp, oelfFile, inp.isLib, "", createFails, writeFails)
        IN  /\ oelfFile' = r.file
            /\ orbisElf' = r.oe
            /\ IF r.status = "ok" THEN Proceed("GenerateDynlibData")
               ELSE errorExit(r.status)
    /\ UNCHANGED <<first, inp, fselfFile, g, seg, selfEntries>>

\* What main does with the result r of the operation
DynlibDataOutcome(r, writeFails) ==
    /\ g' = r.g
    /\ orbisElf' = [orbisElf EXCEPT !.ModuleList = r.dict.mods,
                                    !.LibrarySymbolDictionary = r.dict.lsd,
                                    !.LibraryModuleDictionary = r.dict.lmd]
    /\ seg' = r.seg
    /\ CASE r.status = "panic" -> Panic /\ UNCHANGED oelfFile
         [] r.status \notin {"ok", "panic"} -> errorExit(r.status) /\ UNCHANGED oelfFile
         [] r.status = "ok" /\ writeFails -> errorExit("IOError") /\ UNCHANGED oelfFile
         [] OTHER ->
                /\ oelfFile' =
                    [oelfFile EXCEPT !.content.dynlib = <<r.seg>>,
                                     !.content.size = orbisElf.WrittenBytes + r.seg.size]
                /\ Proceed("GenerateProgramHeaders")

GenerateDynlibDataStage ==
    /\ pc = "GenerateDynlibData"
    /\ \E writeFails \in IoOutcomes :
        DynlibDataOutcome(GenerateDynlibData(inp, orbisElf, g), writeFails)
    /\ UNCHANGED <<first, inp, fselfFile, selfEntries>>

GenerateProgramHeaders ==
    /\ pc = "GenerateProgramHeaders"
    /\ LET r == GenerateProgramHeadersUnsorted(inp, orbisElf, g)
       IN  IF r.status = "panic"
           THEN Panic /\ UNCHANGED orbisElf
           ELSE /\ \E sorted \in SortOutcomes(r.progs) :
                    orbisElf' = [orbisElf EXCEPT !.ProgramHeaders = sorted]
                /\ Proceed("RewriteELFHeader")
    /\ UNCHANGED <<first, inp, oelfFile, fselfFile, g, seg, selfEntries>>

RewriteELFHeader ==
    /\ pc = "RewriteELFHeader"
    /\ \E openFails \in IoOutcomes, writeFails \in IoOutcomes :
        IF openFails \/ writeFails
        THEN errorExit("IOError") /\ UNCHANGED oelfFile
        ELSE /\ oelfFile' =
                    [oelfFile EXCEPT !.content.ehdr =
                        <<RewriteELFHeaderOp(orbisElf,
                                             [InputHeader EXCEPT !.Phnum = Len(inp.progs)])>>]
             /\ Proceed("RewriteSDKVersion")
    /\ UNCHANGED <<first, inp, fselfFile, orbisElf, g, seg, selfEntries>>

RewriteSDKVersion ==
    /\ pc = "RewriteSDKVersion"
    /\ \E writeFails \in IoOutcomes :
        LET rewriteOffset == getFileOffsetBySectionName(inp, ProcParamName(orbisElf.IsLibrary))
        IN  IF rewriteOffset = <<>>
            THEN errorExit("section not found") /\ UNCHANGED oelfFile
            ELSE IF writeFails
            THEN errorExit("IOError") /\ UNCHANGED oelfFile
            ELSE /\ oelfFile' =
                        [oelfFile EXCEPT !.content.sdkver =
                            <<[off |-> rewriteOffset[1] + 16, val |-> SdkVer]>>]
                 /\ Proceed("RewriteProgramHeaders")
    /\ UNCHANGED <<first, inp, fselfFile, orbisElf, g, seg, selfEntries>>

\* The write of header number failsAt fails (none when 0); the headers before
\* it are in the file
RewriteProgramHeaders ==
    /\ pc = "RewriteProgramHeaders"
    /\ \E failsAt \in IF inp.flaky THEN 0..Len(orbisElf.ProgramHeaders) ELSE {0} :
        LET table == RewriteProgramHeadersOp(orbisElf)
        IN  IF failsAt > 0
            THEN /\ oelfFile' = [oelfFile EXCEPT !.content.phtab = SubSeq(table, 1, failsAt - 1)]
                 /\ errorExit("IOError")
            ELSE /\ oelfFile' = [oelfFile EXCEPT !.content.phtab = table]
                 /\ Proceed("Close")
    /\ UNCHANGED <<first, inp, fselfFile, orbisElf, g, seg, selfEntries>>

\* orbisElf.FinalFile.Close()
Close ==
    /\ pc = "Close"
    /\ orbisElf' = [orbisElf EXCEPT !.FinalFileOpen = FALSE]
    /\ \E closeFails \in IoOutcomes :
        IF closeFails THEN errorExit("IOError") ELSE Proceed("CreateFSELF")
    /\ UNCHANGED <<first, inp, oelfFile, fselfFile, g, seg, selfEntries>>

\* fself.CreateFSELF; main does not look at the error it returns, which err
\* keeps for the record
CreateFSELF ==
    /\ pc = "CreateFSELF"
    /\ \E openFails \in IoOutcomes, createFails \in IoOutcomes :
        LET r == CreateFSELFOp(inp, oelfFile, fselfFile, selfEntries, inp.authInfo,
                               openFails, createFails)
        IN  /\ fselfFile' = r.file
            /\ selfEntries' = r.entries
            /\ IF r.status = "panic" THEN Panic
               ELSE /\ pc' = "Cleanup"
                    /\ err' = IF r.status = "ok" THEN "" ELSE r.status
                    /\ UNCHANGED exitCode
    /\ UNCHANGED <<first, inp, oelfFile, orbisElf, g, seg>>

\* The end of main: the intermediate file is removed if main named it, and
\* the process ends with status 0
Cleanup ==
    /\ pc = "Cleanup"
    /\ oelfFile' = IF isOelfTemp THEN [oelfFile EXCEPT !.exists = FALSE] ELSE oelfFile
    /\ pc' = "exited"
    /\ exitCode' = 0
    /\ UNCHANGED <<first, inp, err, fselfFile, orbisElf, g, seg, selfEntries>>

Next ==
    \/ ParseFlags
    \/ CreateOrbisElf
    \/ GenerateDynlibDataStage
    \/ GenerateProgramHeaders
    \/ RewriteELFHeader
    \/ RewriteSDKVersion
    \/ RewriteProgramHeaders
    \/ Close
    \/ CreateFSELF
    \/ Cleanup

Spec == Init /\ [][Next]_vars

\* A process that, after a conversion that succeeded, calls the packages for
\* a second conversion of the same input: the stages of main from
\* CreateOrbisElf on.  The package-level variables are what the first
\* conversion left.
ConvertAgain ==
    /\ pc = "exited" /\ exitCode = 0 /\ err = ""
    /\ first = <<>>
    /\ first' = <<[seg |-> seg, fself |-> fselfFile, oelf |-> oelfFile.content,
                   phdrs |-> orbisElf.ProgramHeaders]>>
    /\ pc' = "CreateOrbisElf"
    /\ UNCHANGED <<inp, exitCode, err, oelfFile, fselfFile, orbisElf, g, seg, selfEntries>>

NextTwice == Next \/ ConvertAgain

SpecTwice == Init /\ [][NextTwice]_vars

(***************************************************************************)
(* Properties                                                              *)
(***************************************************************************)
\* The file at the intermediate path before the run
InitialOelf ==
    [exists |-> inp.oldOelf, content |-> IF inp.oldOelf THEN OldContent ELSE EmptyContent]

\* The file at the intermediate path is one that this run created
CreatedByRun == oelfFile.exists /\ oelfFile.content.base # "old"

\* The OELF stage has written everything: main is at or past Close
OelfProduced ==
    \/ pc \in {"Close", "CreateFSELF", "Cleanup"}
    \/ pc = "exited" /\ exitCode = 0

\* C1: if any stage of a conversion fails, CreateFSELF included, the driver
\* ends with a nonzero exit status; status 0 only when the OELF build and the
\* fSELF wrap both succeeded.  (err holds the error of the stage that failed.)
C1_FailureExitsNonzero ==
    pc = "exited" /\ err # "" => exitCode # 0

\* C1, the run that refutes it: CreateFSELF has returned an error and main is
\* about to end with status 0
C1_FselfErrorDropped ==
    pc = "exited" /\ exitCode = 0 /\ err # "" /\ fselfFile.header = <<>>

\* C2: without --out, the intermediate OELF that the run created no longer
\* exists once the driver has ended, whether the run succeeded or failed after
\* the file was created; with --out the file is never removed.
C2_IntermediateRemoved ==
    pc = "exited" =>
        /\ isOelfTemp => ~CreatedByRun
        /\ ~isOelfTemp /\ orbisElf.WrittenBytes > 0 => oelfFile.exists

\* C2, the run that refutes it: no --out, a stage after the creation failed,
\* and the file is still there
C2_IntermediateLeftBehind ==
    pc = "exited" /\ isOelfTemp /\ exitCode # 0 /\ CreatedByRun

\* C3: CreateOrbisElf validates the input before any other effect: whenever
\* the validation fails, the intermediate file has not been created or
\* truncated, and nothing has been written to it.
C3_ValidationBeforeEffects ==
    validateInputELF(inp) # "" => oelfFile = InitialOelf

\* C3, the run that refutes it: the validation failed and the file that was
\* there before has been truncated
C3_TruncatedBeforeValidation ==
    /\ pc = "exited" /\ err = validateInputELF(inp) /\ err # ""
    /\ inp.oldOelf /\ oelfFile.exists /\ oelfFile.content = EmptyContent

\* C4: in the OELF that the driver produces, the ELF header at offset 0 has
\* phnum = the number of program headers written at 0x40 by
\* RewriteProgramHeaders (the length of the list of GenerateProgramHeaders),
\* phoff = 0x40 and phentsize = 0x38, for executables and libraries alike.
C4_PhnumMatchesTable ==
    OelfProduced =>
        /\ oelfFile.content.ehdr # <<>>
        /\ oelfFile.content.ehdr[1].Phnum = Len(oelfFile.content.phtab)
        /\ Len(oelfFile.content.phtab) = Len(orbisElf.ProgramHeaders)
        /\ oelfFile.content.ehdr[1].Phoff = 64
        /\ oelfFile.content.ehdr[1].Phentsize = 56

\* C4, a run where it matters: a library whose table has another length than
\* the table of the input
C4_TableRebuilt ==
    /\ OelfProduced /\ inp.isLib
    /\ Len(oelfFile.content.phtab) # Len(inp.progs)
    /\ oelfFile.content.ehdr[1].Phnum = Len(oelfFile.content.phtab)

\* GenerateDynlibData has succeeded: the segment is there
SegmentBuilt == seg # NoSegment

\* The undefined dynamic symbols of the input, in table order
UndefinedSymbols ==
    SelectSeq(DynamicSymbols(inp), LAMBDA symbol : symbol.Section = SHN_UNDEF)

\* Positions (from 1) in the library symbol index of the resolved libraries
\* that list the name
Definers(name) ==
    {k \in 1..Len(orbisElf.LibrarySymbolDictionary) :
        Contains(orbisElf.LibrarySymbolDictionary[k].val, name)}

LibcIsModule == Contains(orbisElf.ModuleList, "libc")

\* Positions of the symbols of the input with the given bindings and a
\* value other than 0
SymbolsBound(bindings) ==
    {i \in 1..Len(Symbols(inp)) :
        SymBind(Symbols(inp)[i].Info) \in bindings /\ Symbols(inp)[i].Value # 0}

EmptyNamedBefore(k) ==
    Cardinality({j \in 1..k : j <= Len(UndefinedSymbols) /\ UndefinedSymbols[j].Name = ""})

\* The entry at index i (from 0) of the emitted symbol table
SymbolAt(i) == seg.symbols[i + 1]

\* C6 as stated: for every index i >= 2 of the emitted symbol table
\* (executables and libraries, with or without empty-named undefined symbols)
\* the entry at index i has name = offset_of_nid_table + (i - 2) * 0x10.
C6_NameIsIndexTimes16 ==
    SegmentBuilt =>
        \A i \in 2..(Len(seg.symbols) - 1) :
            SymbolAt(i).Name = g.offsetOfNidTable + (i - 2) * 16

\* C6 amended: the entry at index i >= 2 has name = offset_of_nid_table +
\* (i - 2 - e) * 0x10, where e is the number of empty-named undefined symbols
\* before it, with two exceptions: the entry of an empty-named undefined
\* symbol is all zero (name 0), and the last entry of a library (module_start)
\* has the name of the entry before it (module_stop) plus 12.
C6_NameSkipsPlaceholders ==
    SegmentBuilt =>
        \A i \in 2..(Len(seg.symbols) - 1) :
            IF i - 1 <= Len(UndefinedSymbols) /\ UndefinedSymbols[i - 1].Name = ""
            THEN SymbolAt(i) = ZeroSym64
            ELSE IF inp.isLib /\ i = Len(seg.symbols) - 1
            THEN SymbolAt(i).Name = SymbolAt(i - 1).Name + 12
            ELSE SymbolAt(i).Name =
                    g.offsetOfNidTable + (i - 2 - EmptyNamedBefore(i - 2)) * 16

\* C6, a run where it matters: a library with an empty-named undefined symbol
\* followed by a named one; the named entry is at index 3 with the name of
\* the first NID entry
C6_EntryAfterPlaceholder ==
    /\ SegmentBuilt /\ inp.isLib
    /\ Len(UndefinedSymbols) = 2
    /\ UndefinedSymbols[1].Name = "" /\ UndefinedSymbols[2].Name # ""
    /\ SymbolAt(2) = ZeroSym64
    /\ SymbolAt(3).Name = g.offsetOfNidTable

\* The symbol indices met when following the chain from index i, at most
\* fuel steps: the walk ends at 0 or when the fuel runs out
RECURSIVE ChainWalk(_, _, _)
ChainWalk(chains, i, fuel) ==
    IF i = 0 \/ fuel = 0 \/ i >= Len(chains) THEN <<i>>
    ELSE <<i>> \o ChainWalk(chains, chains[i + 1], fuel - 1)

\* C7: the hash table is {nbucket = 1, nchain = N}, N the number of entries
\* of the symbol table (the two leading entries and the placeholders
\* included), one bucket of value 1, and N chain entries with chain[0] = 0,
\* chain[i] = i + 1 for 1 <= i < N - 1 and chain[N - 1] = 0; following the
\* chain from the bucket value visits 1..N-1 once each and then ends at 0.
C7_SingleChain ==
    SegmentBuilt =>
        LET N == Len(seg.symbols)
            chain(i) == seg.hash.chains[i + 1]
        IN  /\ seg.hash.nbucket = 1
            /\ seg.hash.nchain = N
            /\ seg.hash.buckets = <<1>>
            /\ Len(seg.hash.chains) = N
            /\ chain(0) = 0
            /\ \A i \in 1..(N - 2) : chain(i) = i + 1
            /\ chain(N - 1) = 0
            /\ ChainWalk(seg.hash.chains, seg.hash.buckets[1], N + 1)
                    = [k \in 1..N |-> IF k < N THEN k ELSE 0]

\* C7, a run where it matters: a table with a placeholder and more than the
\* two leading entries
C7_ChainOverPlaceholder ==
    /\ SegmentBuilt
    /\ \E i \in 2..(Len(seg.symbols) - 2) : SymbolAt(i) = ZeroSym64
    /\ seg.hash.nchain = Len(seg.symbols)
    /\ seg.hash.nchain >= 4
    /\ seg.hash.chains[seg.hash.nchain] = 0

\* createSelfEntries has run in CreateFSELF
EntriesCreated == pc \in {"Cleanup", "exited"} /\ selfEntries # <<>>

\* Indices (from 0) in the program-header table of the OELF of the signed
\* segments, in table order
SignedIndices ==
    SelectSeq([i \in 1..Len(oelfFile.content.phtab) |-> i - 1],
              LAMBDA i : IsSigned(oelfFile.content.phtab[i + 1]))

SegmentIndexOf(entry) == entry.Properties[SELF_ENTRY_PROPERTY_BIT_SEGMENT_INDEX]

\* C8 as stated: for every entry that createSelfEntries creates, meta and data
\* alike, the decoded SEGMENT_INDEX is the index in the program-header table
\* of the OELF of the program header that the entry covers.
C8_SegmentIndexIsHeaderIndex ==
    EntriesCreated =>
        \A k \in 1..Len(selfEntries) :
            SegmentIndexOf(selfEntries[k]) = SignedIndices[(k + 1) \div 2]

\* C8 amended: the entries come in pairs, one pair per signed segment in table
\* order.  The data entry (the second of the pair) names the index of its
\* program header; the meta entry (the first) names the position in the entry
\* list of its data entry, which is 1 + 2 * (the number of signed segments
\* before it).
C8_MetaNamesDataEntry ==
    EntriesCreated =>
        /\ Len(selfEntries) = 2 * Len(SignedIndices)
        /\ \A n \in 1..Len(SignedIndices) :
            /\ SegmentIndexOf(selfEntries[2 * n]) = SignedIndices[n]
            /\ SegmentIndexOf(selfEntries[2 * n - 1]) = 1 + 2 * (n - 1)
            /\ selfEntries[2 * n - 1].Properties[SELF_ENTRY_PROPERTY_BIT_HASDIGESTS] = 1
            /\ selfEntries[2 * n].Properties[SELF_ENTRY_PROPERTY_BIT_HASBLOCKS] = 1

\* C8, a run where it matters: several signed segments, one of them after an
\* unsigned header, and a meta entry whose index is not that of its header
C8_MetaIndexDiffers ==
    /\ EntriesCreated
    /\ Len(SignedIndices) >= 3
    /\ \E n \in 1..Len(SignedIndices) :
        /\ SignedIndices[n] # n - 1
        /\ SegmentIndexOf(selfEntries[2 * n - 1]) # SignedIndices[n]
        /\ SegmentIndexOf(selfEntries[2 * n]) = SignedIndices[n]

\* CreateFSELF has written the whole fSELF
FselfWritten == pc = "Cleanup" /\ err = ""

\* C9: the digest in the extended info is the SHA-256 of the bytes of the
\* finished OELF file, as it stands after every write of the OELF stage
\* (DynlibData, ELF header, SDK version, program-header table) and after it
\* was closed; the ELF header and the segment payloads of the fSELF are taken
\* from the same bytes.
C9_DigestOfFinishedOelf ==
    FselfWritten =>
        /\ ~orbisElf.FinalFileOpen
        /\ oelfFile.content.dynlib = <<seg>>
        /\ oelfFile.content.ehdr # <<>>
        /\ oelfFile.content.sdkver # <<>>
        /\ oelfFile.content.phtab = RewriteProgramHeadersOp(orbisElf)
        /\ fselfFile.extInfo[1].Digest = Sha256(oelfFile.content)
        /\ fselfFile.ehdr = oelfFile.content.ehdr
        /\ \A k \in 1..Len(fselfFile.segments) :
                k % 2 = 0 => fselfFile.segments[k].Data[1].from = oelfFile.content

\* C9, a run where it matters: a whole fSELF with payloads, and a digest
\* other than that of the input that was copied
C9_DigestOverRewrittenFile ==
    /\ FselfWritten
    /\ Len(fselfFile.segments) >= 4
    /\ fselfFile.extInfo[1].Digest = Sha256(oelfFile.content)
    /\ fselfFile.extInfo[1].Digest
            # Sha256([EmptyContent EXCEPT !.base = "input", !.size = InputSize])

\* GenerateLibrarySymbolDictionary has run and succeeded
DictionaryBuilt ==
    /\ orbisElf.WrittenBytes > 0
    /\ pc # "GenerateDynlibData"
    /\ GenerateLibrarySymbolDictionary(inp).status = "ok"

\* C10: after GenerateLibrarySymbolDictionary succeeds, libkernel is at index
\* 0 of the library symbol index and of the module list, whether libkernel.so
\* is absent from DT_NEEDED or at any position in it.
C10_LibkernelFirst ==
    DictionaryBuilt =>
        /\ orbisElf.ModuleList # <<>>
        /\ orbisElf.ModuleList[1] = "libkernel"
        /\ Keys(orbisElf.LibrarySymbolDictionary) # <<>>
        /\ Keys(orbisElf.LibrarySymbolDictionary)[1] = "libkernel"

\* C10, a run where it matters: libkernel.so is not among the needed
\* libraries, another library is, and libkernel is first all the same
C10_LibkernelInjected ==
    /\ DictionaryBuilt
    /\ ~Contains(inp.needed, "libkernel.so")
    /\ inp.needed # <<>>
    /\ orbisElf.ModuleList[1] = "libkernel"
    /\ Keys(orbisElf.LibrarySymbolDictionary)[1] = "libkernel"
    /\ Len(Keys(orbisElf.LibrarySymbolDictionary)) >= 2

\* C10, another run where it matters: libkernel.so is the second of the
\* needed libraries
C10_LibkernelMoved ==
    /\ DictionaryBuilt
    /\ Len(inp.needed) = 2 /\ inp.needed[2] = "libkernel.so"
    /\ orbisElf.ModuleList[1] = "libkernel"

(***************************************************************************)
(* NID literals                                                            *)
(***************************************************************************)
NidPrefix == "__PS4_NID_"

\* The whole of the name after the prefix, with _plus and _minus decoded
LiteralAfterPrefix(name) ==
    ReplaceAll(ReplaceAll(SubSeq(name, Len(NidPrefix) + 1, Len(name)), "_plus", "+"),
               "_minus", "-")

LiteralEntries ==
    {i \in 1..Len(seg.nids) : HasPrefix(seg.nids[i].sym, NidPrefix)}

\* C11: for every symbol name that begins with __PS4_NID_, buildNIDEntry does no
\* hashing and emits as the hash part the entire literal after the prefix with
\* every _plus replaced by + and every _minus by -, followed by #<lib>#<mod>
\* and a null byte.
C11_LiteralIsWholeSuffix ==
    SegmentBuilt =>
        \A i \in LiteralEntries :
            /\ ~seg.nids[i].hashed
            /\ seg.nids[i].nid = LiteralAfterPrefix(seg.nids[i].sym)
            /\ seg.nids[i].size = Len(LiteralAfterPrefix(seg.nids[i].sym)) + 5

\* C11, a run where it fails: the literal holds _NID_ a second time and only
\* the part before it is emitted
C11_LiteralCutAtSecondMarker ==
    /\ SegmentBuilt
    /\ \E i \in LiteralEntries :
            /\ seg.nids[i].sym = "__PS4_NID_ab_NID_cd"
            /\ ~seg.nids[i].hashed
            /\ seg.nids[i].nid = "ab"

\* C11, the case the specification gives: aBc_plus_minus is emitted as aBc+-
C11_SpecExampleLiteral ==
    SegmentBuilt =>
        \A i \in LiteralEntries :
            seg.nids[i].sym = "__PS4_NID_aBc_plus_minus" =>
                ~seg.nids[i].hashed /\ seg.nids[i].nid = "aBc+-"

(***************************************************************************)
(* Relocation table                                                        *)
(***************************************************************************)
RelaPltMissing == ~HasSection(inp, ".rela.plt") \/ inp.relaPlt = <<>>
RelaDynMissing == ~HasSection(inp, ".rela.dyn") \/ inp.relaDyn = <<>>
NeedLibcEntries ==
    IF g.needSceLibcIndex >= 0 THEN (IF inp.isLib THEN 1 ELSE 2) ELSE 0

\* C12: when .rela.plt or .rela.dyn of the input is absent or empty,
\* GenerateDynlibData does not fail on that account, the corresponding part of
\* the relocation table has zero entries, and the reported relocation-table
\* size (bytes written minus the jump-relocation size) is non-negative and
\* does not wrap around.
C12_MissingRelaTolerated ==
    (RelaPltMissing \/ RelaDynMissing) =>
        /\ ~(pc = "exited" /\ err = "MalformedInput")
        /\ SegmentBuilt =>
            /\ Len(seg.relocations) =
                    (IF RelaPltMissing THEN 0 ELSE Len(inp.relaPlt))
                    + (IF RelaDynMissing THEN 0 ELSE Len(inp.relaDyn))
                    + NeedLibcEntries
            /\ seg.tableOffsets.relocationTableSz >= 0

\* C12, a run where it fails: the input has no .rela.plt and so no
\* DT_PLTRELSZ, everything else is in order, and the run ends with the error
\* of the tag lookup
C12_FailsWithoutRelaPlt ==
    /\ ~HasSection(inp, ".rela.plt") /\ inp.relaPlt = <<>>
    /\ "DT_PLTRELSZ" \notin inp.dynTags /\ "DT_PLTGOT" \in inp.dynTags
    /\ inp.onPath = LibNames /\ inp.hasSymtab
    /\ pc = "exited" /\ err = "MalformedInput" /\ exitCode = 255

\* C12, the other way it fails: PLT relocations known to the dynamic table
\* only; the reported size is below zero, that is, wrapped
C12_SizeWraps ==
    /\ SegmentBuilt
    /\ ~HasSection(inp, ".rela.plt")
    /\ seg.tableOffsets.relocationTableSz < 0

\* C12, the part that holds: with the tags present, a missing or empty
\* section gives an empty part and the run goes on
C12_EmptyPartWhenTagsPresent ==
    SegmentBuilt =>
        Len(seg.relocations) =
            (IF RelaPltMissing THEN 0 ELSE Len(inp.relaPlt))
            + (IF RelaDynMissing THEN 0 ELSE Len(inp.relaDyn))
            + NeedLibcEntries

(***************************************************************************)
(* Program headers                                                         *)
(***************************************************************************)
\* GenerateProgramHeaders has succeeded
HeadersBuilt == orbisElf.ProgramHeaders # <<>>

IsRX(p) == p.Type = PT_LOAD /\ p.Flags = PF_R + PF_X
IsRW(p) == p.Type = PT_LOAD /\ p.Flags = PF_R + PF_W
Sizes(p) == <<p.Filesz, p.Memsz>>
SizesOf(progs, Test(_)) ==
    LET picked == SelectSeq(progs, Test)
    IN  [i \in 1..Len(picked) |-> Sizes(picked[i])]

\* C13: when the input has no .data.rel.ro section, the program headers of
\* GenerateProgramHeaders contain no PT_GNU_RELRO and no SCE_RELRO header, and
\* the read-execute PT_LOAD keeps the file size and memory size of the input.
C13_NoRelroWithoutSection ==
    HeadersBuilt /\ ~HasSection(inp, ".data.rel.ro") =>
        /\ \A i \in 1..Len(orbisElf.ProgramHeaders) :
                orbisElf.ProgramHeaders[i].Type \notin {PT_GNU_RELRO, PT_SCE_RELRO}
        /\ SizesOf(orbisElf.ProgramHeaders, IsRX) = SizesOf(inp.progs, IsRX)

\* C13, a run where it matters: the input has a PT_GNU_RELRO header and no
\* .data.rel.ro section, and the table with its read-execute PT_LOAD is built
C13_RelroHeaderWithoutSection ==
    /\ HeadersBuilt /\ ~HasSection(inp, ".data.rel.ro")
    /\ \E i \in 1..Len(inp.progs) : inp.progs[i].Type = PT_GNU_RELRO
    /\ \E i \in 1..Len(orbisElf.ProgramHeaders) : IsRX(orbisElf.ProgramHeaders[i])


(***************************************************************************)
(* The signature block of the fSELF                                        *)
(***************************************************************************)
CreateFSELFPanicked ==
    pc = "exited" /\ err = "panic" /\ fselfFile.exists /\ fselfFile.header = <<>>

\* C14: whatever auth-info is supplied, CreateFSELF completes with a
\* signature of exactly SELF_SIGNATURE_SIZE bytes: all zero without
\* auth-info, otherwise the decoded length, the paid and the decoded bytes
\* from the ninth on
C14_SignatureIs0x100 ==
    /\ ~(CreateFSELFPanicked /\ inp.authInfo # "")
    /\ FselfWritten =>
          /\ Len(fselfFile.signature) = 1
          /\ fselfFile.signature[1].size = SELF_SIGNATURE_SIZE
          /\ inp.authInfo = "" => fselfFile.signature[1] = ZeroSignature
          /\ inp.authInfo # "" =>
                /\ fselfFile.signature[1].authLen = Len(inp.authInfo) \div 2
                /\ fselfFile.signature[1].paid = "paid"
                /\ fselfFile.signature[1].tail
                     = SubSeq(inp.authInfo, 17, Len(inp.authInfo))

\* An auth-info of fewer than eight bytes ends the run in the slice of
\* createSignature
C14_ShortAuthInfoPanics ==
    CreateFSELFPanicked /\ inp.authInfo = "0011"

\* An auth-info of more than 0xF8 bytes is written as a longer signature
C14_LongAuthInfoOverflows ==
    /\ FselfWritten
    /\ Len(inp.authInfo) = 2 * LongAuthLen
    /\ fselfFile.signature[1].size = 2 * SELF_SIGNATURE_SIZE

\* The part of C14 that holds: with no auth-info, or with one of eight to
\* 0xF8 bytes, the signature is as described
C14_SignatureWhenItFits ==
    (FselfWritten /\ Len(inp.authInfo) \div 2 \in {0} \cup (8..(SELF_SIGNATURE_SIZE - 8))) =>
        /\ fselfFile.signature[1].size = SELF_SIGNATURE_SIZE
        /\ inp.authInfo # "" =>
              fselfFile.signature[1].tail = SubSeq(inp.authInfo, 17, Len(inp.authInfo))

C14_SixteenByteAuthInfo ==
    FselfWritten /\ inp.authInfo = "00112233445566778899AABBCCDDEEFF"


(***************************************************************************)
(* DT_SCE_PLTGOT                                                           *)
(***************************************************************************)
DynValue(tag) ==
    LET i == CHOOSE i \in 1..Len(seg.dynamic) : seg.dynamic[i].tag = tag
    IN  seg.dynamic[i].lo

\* Nothing but the DT_PLTGOT entry can make GenerateDynlibData fail
OtherwiseBuildable ==
    /\ inp.args = "ok" /\ inp.ident = "ok" /\ ~inp.flaky
    /\ inp.onPath = LibNames /\ inp.hasSymtab /\ "DT_PLTRELSZ" \in inp.dynTags

\* C15: DT_SCE_PLTGOT carries the value of the input's DT_PLTGOT entry when
\* there is one; without one, a library with a .got.plt section is built
\* with the address of that section, and the build fails with no such section
C15_PltgotOrGotPlt ==
    /\ (SegmentBuilt /\ "DT_PLTGOT" \in inp.dynTags) =>
            DynValue("DT_SCE_PLTGOT") = inp.pltgot
    /\ ("DT_PLTGOT" \notin inp.dynTags /\ inp.isLib /\ HasSection(inp, ".got.plt")
         /\ OtherwiseBuildable /\ pc \in {"GenerateProgramHeaders", "exited"}) =>
            /\ SegmentBuilt
            /\ DynValue("DT_SCE_PLTGOT") = Section(inp, ".got.plt").Addr
    /\ ("DT_PLTGOT" \notin inp.dynTags /\ ~HasSection(inp, ".got.plt")) => ~SegmentBuilt

\* A library with a .got.plt section and no DT_PLTGOT entry is not built: the
\* run ends with the error of the tag lookup
C15_LibraryWithoutTagFails ==
    /\ "DT_PLTGOT" \notin inp.dynTags /\ inp.isLib /\ HasSection(inp, ".got.plt")
    /\ OtherwiseBuildable
    /\ pc = "exited" /\ err = "MalformedInput" /\ exitCode = 255 /\ ~SegmentBuilt

\* A DT_PLTGOT entry of value zero is replaced by the address of .got.plt
C15_ZeroTagReplaced ==
    /\ SegmentBuilt /\ "DT_PLTGOT" \in inp.dynTags /\ inp.pltgot = 0
    /\ DynValue("DT_SCE_PLTGOT") = Section(inp, ".got.plt").Addr

\* The part of C15 that holds: a DT_PLTGOT entry of a value other than zero
\* is carried over, and with a value of zero and no .got.plt nothing is built
C15_NonZeroTagCarried ==
    /\ (SegmentBuilt /\ "DT_PLTGOT" \in inp.dynTags /\ inp.pltgot # 0) =>
            DynValue("DT_SCE_PLTGOT") = inp.pltgot
    /\ (getDynamicTag(inp, "DT_PLTGOT") \in {<<>>, <<0>>} /\ ~HasSection(inp, ".got.plt"))
            => ~SegmentBuilt

C15_OtherAddressCarried ==
    /\ SegmentBuilt /\ inp.pltgot = BaseAddr + SecOff[".data"]
    /\ DynValue("DT_SCE_PLTGOT") = inp.pltgot


(***************************************************************************)
(* The interpreter string and the section header of .dynamic               *)
(***************************************************************************)
\* The 0x20 bytes of a file at the offset of .text: what was written there
\* last, else what the file was filled with
TextHead(file) ==
    IF file.content.interp # <<>> THEN file.content.interp[1].val
    ELSE IF file.content.base = "input" THEN inp.textHead
    ELSE [text |-> "", pad |-> 0]

\* Entry i of the section header table of a file filled from the input
SectionHeaderAt(file, i) ==
    IF file.content.shdr # <<>> /\ file.content.shdr[1].index = i
    THEN file.content.shdr[1].hdr
    ELSE InputSectionHeaders(inp)[i]

OelfComplete == OelfProduced /\ oelfFile.exists /\ oelfFile.content.base = "input"

\* C16: in the OELF of a successful run the 0x20 bytes at the offset of .text
\* are the interpreter string followed by zero bytes
C16_InterpreterAtText ==
    OelfComplete => TextHead(oelfFile) = InterpreterBuff(Interpreter)

\* A successful run whose OELF still has the input's bytes at .text
C16_TextLeftAsInInput ==
    /\ pc = "exited" /\ exitCode = 0 /\ oelfFile.exists
    /\ inp.textHead = CodeBytes /\ TextHead(oelfFile) = CodeBytes

\* No stage of the driver writes at the offset of .text
C16_NeverWritten == oelfFile.content.interp = <<>>

\* What RewriteInterpreter would write: 31 characters and one zero byte
C16_WhatRewriteInterpreterWrites ==
    OelfComplete =>
        LET r == RewriteInterpreter(inp, oelfFile, Interpreter, FALSE)
        IN  /\ r.status = "ok"
            /\ TextHead(r.file) = [text |-> Interpreter, pad |-> 1]
            /\ r.file.content.interp[1].off = Section(inp, ".text").Offset

\* C17: in the OELF of a successful run the section header of type
\* SHT_DYNAMIC has offset = address = offset of the new dynamic table and
\* its size, and every other section header is as in the input
C17_DynamicShdrPatched ==
    OelfComplete =>
        \A i \in 1..Len(InputSectionHeaders(inp)) :
            IF InputSectionHeaders(inp)[i].Type = "SHT_DYNAMIC"
            THEN /\ SectionHeaderAt(oelfFile, i).Off = g.offsetOfDynamic
                 /\ SectionHeaderAt(oelfFile, i).Addr = g.offsetOfDynamic
                 /\ SectionHeaderAt(oelfFile, i).Size = g.sizeOfDynamic
            ELSE SectionHeaderAt(oelfFile, i) = InputSectionHeaders(inp)[i]

\* A successful run whose OELF has the section header of .dynamic as in the
\* input, pointing at the old table, while the new table is elsewhere
C17_DynamicShdrLeftAsInInput ==
    /\ pc = "exited" /\ exitCode = 0 /\ oelfFile.exists
    /\ \E i \in 1..Len(InputSectionHeaders(inp)) :
          /\ SectionHeaderAt(oelfFile, i) = InputDynamicShdr
          /\ SectionHeaderAt(oelfFile, i).Off # g.offsetOfDynamic
    /\ g.offsetOfDynamic >= InputSize

\* The part of C17 that holds: every section header of the OELF is as in the
\* input
C17_SectionTablePassedThrough ==
    OelfComplete =>
        \A i \in 1..Len(InputSectionHeaders(inp)) :
            SectionHeaderAt(oelfFile, i) = InputSectionHeaders(inp)[i]

\* What RewriteDynamicSectionHeader would write
C17_WhatRewriteWrites ==
    OelfComplete =>
        LET r == RewriteDynamicSectionHeader(inp, oelfFile, g, FALSE, FALSE)
            n == Len(InputSectionHeaders(inp))
        IN  /\ r.status = "ok"
            /\ SectionHeaderAt(r.file, n).Off = g.offsetOfDynamic
            /\ SectionHeaderAt(r.file, n).Addr = g.offsetOfDynamic
            /\ SectionHeaderAt(r.file, n).Size = g.sizeOfDynamic
            /\ \A i \in 1..(n - 1) : SectionHeaderAt(r.file, i) = InputSectionHeaders(inp)[i]


(***************************************************************************)
(* The read-write PT_LOAD                                                  *)
(***************************************************************************)
ParamSection == Section(inp, ProcParamName(inp.isLib))

\* The run ended in a panic of GenerateProgramHeaders
HeadersPanicked == pc = "exited" /\ err = "panic" /\ exitCode = 2 /\ ~HeadersBuilt

\* The read-write PT_LOAD runs from the param section to the end of .data in
\* the file and to the end of .bss, if there is one, in memory
RWLoadSpansData ==
    \A i \in 1..Len(orbisElf.ProgramHeaders) :
        IsRW(orbisElf.ProgramHeaders[i]) =>
            /\ orbisElf.ProgramHeaders[i].Off = ParamSection.Offset
            /\ orbisElf.ProgramHeaders[i].Vaddr = ParamSection.Addr
            /\ orbisElf.ProgramHeaders[i].Filesz
                 = Section(inp, ".data").Offset + Section(inp, ".data").Size
                   - ParamSection.Offset
            /\ orbisElf.ProgramHeaders[i].Memsz
                 = IF HasSection(inp, ".bss")
                   THEN Section(inp, ".bss").Addr + Section(inp, ".bss").Size
                        - ParamSection.Addr
                   ELSE Section(inp, ".data").Addr + Section(inp, ".data").Size
                        - ParamSection.Addr

\* C18: the read-write PT_LOAD begins at the param section, its file size
\* ends with .data and never includes .bss, its memory size runs to the end
\* of .bss when there is one; for inputs with or without .data and .bss.
\* (An input without .data is given its headers as well.)
C18_RWLoadFromParamToData ==
    /\ HeadersBuilt => RWLoadSpansData
    /\ (getProgramHeader(inp.progs, PT_GNU_RELRO, PF_R) # <<>>
         /\ HasSection(inp, ProcParamName(inp.isLib)) /\ HasSection(inp, ".text"))
            => ~HeadersPanicked

\* An input with a writable PT_LOAD and no .data section ends the run in
\* GenerateProgramHeaders
C18_PanicsWithoutData ==
    /\ ~HasSection(inp, ".data") /\ HasSection(inp, ".bss")
    /\ getProgramHeader(inp.progs, PT_GNU_RELRO, PF_R) # <<>>
    /\ HasSection(inp, ProcParamName(inp.isLib)) /\ HasSection(inp, ".text")
    /\ HeadersPanicked

\* The part of C18 that holds: whenever headers are produced, the read-write
\* PT_LOAD is as described, with .bss or without
C18_WhenHeadersAreProduced == HeadersBuilt => RWLoadSpansData

C18_RWLoadWithBss ==
    /\ HeadersBuilt /\ HasSection(inp, ".bss")
    /\ \E i \in 1..Len(orbisElf.ProgramHeaders) :
          /\ IsRW(orbisElf.ProgramHeaders[i])
          /\ orbisElf.ProgramHeaders[i].Filesz < orbisElf.ProgramHeaders[i].Memsz

C18_RWLoadWithoutBss ==
    /\ HeadersBuilt /\ ~HasSection(inp, ".bss")
    /\ \E i \in 1..Len(orbisElf.ProgramHeaders) :
          /\ IsRW(orbisElf.ProgramHeaders[i])
          /\ orbisElf.ProgramHeaders[i].Filesz = orbisElf.ProgramHeaders[i].Memsz


(***************************************************************************)
(* The order of the program headers                                        *)
(***************************************************************************)
\* The place of a header in the order as the specification words it
Rank(p) ==
    CASE p.Type = PT_LOAD /\ p.Flags # PF_R + PF_W -> 1
      [] p.Type = PT_SCE_RELRO -> 2
      [] p.Type = PT_LOAD /\ p.Flags = PF_R + PF_W -> 3
      [] p.Type \in {PT_SCE_PROC_PARAM, PT_SCE_MODULE_PARAM} -> 4
      [] p.Type = PT_DYNAMIC -> 5
      [] p.Type = PT_INTERP -> 6
      [] p.Type = PT_TLS -> 7
      [] p.Type = PT_GNU_EH_FRAME -> 8
      [] p.Type = PT_SCE_DYNLIBDATA -> 9
      [] OTHER -> 10

HasRank(r) ==
    \E i \in 1..Len(orbisElf.ProgramHeaders) : Rank(orbisElf.ProgramHeaders[i]) = r

\* C19: after GenerateProgramHeaders no header precedes a header of an
\* earlier place in the order read-execute PT_LOAD, SCE_RELRO, read-write
\* PT_LOAD, SCE_PROC_PARAM / SCE_MODULE_PARAM, PT_DYNAMIC, PT_INTERP, PT_TLS,
\* GNU_EH_FRAME, SCE_DYNLIBDATA, and the headers of other types are last
C19_OrderedByPriority ==
    \A i, j \in 1..Len(orbisElf.ProgramHeaders) :
        i < j => Rank(orbisElf.ProgramHeaders[i]) <= Rank(orbisElf.ProgramHeaders[j])

\* C19, a run where it matters: a program with a header of every place of the
\* order
C19_EveryPlacePresent ==
    /\ HeadersBuilt /\ ~inp.isLib
    /\ \A r \in 1..10 : HasRank(r)

\* The headers before sort.Sort
Unsorted ==
    GenerateProgramHeadersUnsorted(inp, [orbisElf EXCEPT !.ProgramHeaders = <<>>], g).progs

PlaceBefore(p) == CHOOSE k \in 1..Len(Unsorted) : Unsorted[k] = p

\* C20: two headers of the same priority are after the sort in the order
\* they had before it
C20_SortIsStable ==
    HeadersBuilt =>
        \A i, j \in 1..Len(orbisElf.ProgramHeaders) :
            (/\ i < j
             /\ ~Less(orbisElf.ProgramHeaders[i], orbisElf.ProgramHeaders[j])
             /\ ~Less(orbisElf.ProgramHeaders[j], orbisElf.ProgramHeaders[i]))
            => PlaceBefore(orbisElf.ProgramHeaders[i]) <= PlaceBefore(orbisElf.ProgramHeaders[j])

\* Two headers of type PT_NOTE that sort.Sort has exchanged
C20_NotesExchanged ==
    /\ HeadersBuilt
    /\ \E i, j \in 1..Len(orbisElf.ProgramHeaders) :
          /\ i < j
          /\ orbisElf.ProgramHeaders[i].Type = PT_NOTE
          /\ orbisElf.ProgramHeaders[j].Type = PT_NOTE
          /\ PlaceBefore(orbisElf.ProgramHeaders[i]) > PlaceBefore(orbisElf.ProgramHeaders[j])

\* What sort.Sort does give: the same headers, as many of each
C20_SamePermuted ==
    HeadersBuilt =>
        /\ Len(orbisElf.ProgramHeaders) = Len(Unsorted)
        /\ \A k \in 1..Len(Unsorted) :
              Cardinality({i \in 1..Len(Unsorted) : Unsorted[i] = Unsorted[k]})
              = Cardinality({i \in 1..Len(Unsorted) : orbisElf.ProgramHeaders[i] = Unsorted[k]})


(***************************************************************************)
(* The segment index of the meta entries                                   *)
(***************************************************************************)
\* C21 as stated: the meta entry of the signed segment at program-header
\* index i has SEGMENT_INDEX = i + 1, also when unsigned headers precede it
C21_MetaIndexIsHeaderIndexPlusOne ==
    EntriesCreated =>
        \A n \in 1..Len(SignedIndices) :
            2 * n - 1 <= Len(selfEntries) =>
                SegmentIndexOf(selfEntries[2 * n - 1]) = SignedIndices[n] + 1

\* C21 amended: the meta entries are the entries at the even places (from 0)
\* of the entry list, and the SEGMENT_INDEX of each is its own place plus
\* one, the place of the data entry that follows it; that data entry names a
\* signed program header.  The value is i + 1 only for a segment whose index
\* i is twice the number of signed segments before it.
C21_MetaIndexIsOwnPlacePlusOne ==
    EntriesCreated =>
        \A k \in 0..(Len(selfEntries) - 1) :
            k % 2 = 0 =>
                /\ SegmentIndexOf(selfEntries[k + 1]) = k + 1
                /\ k + 2 <= Len(selfEntries)
                /\ IsSigned(oelfFile.content.phtab[SegmentIndexOf(selfEntries[k + 2]) + 1])
                /\ (SegmentIndexOf(selfEntries[k + 1]) = SegmentIndexOf(selfEntries[k + 2]) + 1)
                     <=> (SegmentIndexOf(selfEntries[k + 2]) = k)

\* C21, a run where it matters: the segment at index 1 is signed and its
\* meta entry has index 3, and a signed segment follows unsigned headers
C21_SecondSegmentHasIndexThree ==
    /\ EntriesCreated
    /\ Len(SignedIndices) >= 3
    /\ SignedIndices[2] = 1
    /\ SegmentIndexOf(selfEntries[3]) = 3
    /\ \E n \in 1..Len(SignedIndices) : SignedIndices[n] > n - 1


(***************************************************************************)
(* The library symbol index and the module list                            *)
(***************************************************************************)
\* C22: after GenerateLibrarySymbolDictionary the k-th key of the library
\* symbol index is the k-th module name for every k below the length of the
\* module list, no module is listed twice, and the libraries that are no
\* module come after all the keys that are modules
C22_ModulesLeadTheIndex ==
    DictionaryBuilt =>
        /\ Len(orbisElf.ModuleList) <= Len(orbisElf.LibrarySymbolDictionary)
        /\ \A k \in 1..Len(orbisElf.ModuleList) :
              Keys(orbisElf.LibrarySymbolDictionary)[k] = orbisElf.ModuleList[k]
        /\ NoDup(orbisElf.ModuleList)
        /\ \A k \in 1..Len(orbisElf.LibrarySymbolDictionary) :
              ~Contains(orbisElf.ModuleList, Keys(orbisElf.LibrarySymbolDictionary)[k])
                  => k > Len(orbisElf.ModuleList)
        /\ NoDup(Keys(orbisElf.LibrarySymbolDictionary))

\* C22, a run where it matters: a library hosted by a module of another name
\* is needed before a library that is a module, and is moved behind it
C22_HostedLibraryMovedBehind ==
    /\ DictionaryBuilt
    /\ inp.needed = <<"libScePosix.so", "libc.so">>
    /\ orbisElf.ModuleList = <<"libkernel", "libc">>
    /\ Keys(orbisElf.LibrarySymbolDictionary) = <<"libkernel", "libc", "libScePosix">>


(***************************************************************************)
(* Attribution of the symbols to the libraries                             *)
(***************************************************************************)
\* The libraries that were opened: libkernel.so and the needed ones
ResolvedLibraries == {"libkernel.so"} \cup Range(inp.needed)

SymbolNames == {Symbols(inp)[i].Name : i \in 1..Len(Symbols(inp))} \ {"_DYNAMIC"}

\* The names listed under every resolved library are the symbols of the
\* input that the library defines
AttributedIffDefined ==
    \A l \in ResolvedLibraries :
        /\ Has(orbisElf.LibrarySymbolDictionary, Purify(l))
        /\ \A name \in SymbolNames :
              Contains(Get(orbisElf.LibrarySymbolDictionary, Purify(l)), name)
                  <=> name \in LibSymbols[l]

DictionaryPanicked ==
    /\ pc = "exited" /\ err = "panic" /\ exitCode = 2
    /\ GenerateLibrarySymbolDictionary(inp).status = "panic"

\* C23: after GenerateLibrarySymbolDictionary a symbol name is listed under a
\* resolved library exactly if that library defines it, for every needed
\* list, those without libkernel.so included, and the operation never indexes
\* outside the needed list
C23_ListedUnderEveryDefiner ==
    /\ DictionaryBuilt => AttributedIffDefined
    /\ ~DictionaryPanicked

\* libkernel.so is not needed: a symbol that only libkernel defines is listed
\* under the first needed library
C23_ListedUnderNextLibrary ==
    /\ DictionaryBuilt
    /\ inp.needed = <<"libScePosix.so">>
    /\ "sK" \in SymbolNames
    /\ Contains(Get(orbisElf.LibrarySymbolDictionary, "libScePosix"), "sK")
    /\ ~Contains(Get(orbisElf.LibrarySymbolDictionary, "libkernel"), "sK")

\* libkernel.so is not needed: a symbol of the last needed library makes the
\* operation index the needed list past its end
C23_IndexPastTheEnd ==
    /\ DictionaryPanicked
    /\ ~Contains(inp.needed, "libkernel.so") /\ inp.needed # <<>>
    /\ \E name \in SymbolNames : name \in LibSymbols[inp.needed[Len(inp.needed)]]

\* The part of C23 that holds: when libkernel.so is needed, every symbol is
\* listed under exactly the libraries that define it
C23_WhenLibkernelIsNeeded ==
    (DictionaryBuilt /\ Contains(inp.needed, "libkernel.so")) => AttributedIffDefined

C23_ListedUnderTwoLibraries ==
    /\ DictionaryBuilt /\ Contains(inp.needed, "libkernel.so")
    /\ Contains(Get(orbisElf.LibrarySymbolDictionary, "libkernel"), "sB")
    /\ Has(orbisElf.LibrarySymbolDictionary, "libc")
    /\ Contains(Get(orbisElf.LibrarySymbolDictionary, "libc"), "sB")

(***************************************************************************)
(* Two conversions in one process                                          *)
(***************************************************************************)
\* The second conversion has built its dynlib data segment
SecondSegmentBuilt == first # <<>> /\ pc = "GenerateProgramHeaders"

\* The second conversion has left CreateFSELF, normally or by a panic
SecondFselfLeft ==
    /\ first # <<>>
    /\ fselfFile.header # <<>>
    /\ pc \in {"Cleanup", "exited"}
    /\ Len(selfEntries) > Len(first[1].fself.entries)

\* C24: the second conversion of the same input in the same process gives
\* the dynamic table and the entry descriptors of the first, and ends as the
\* first did.
C24_SecondRunRepeatsTheFirst ==
    /\ SecondSegmentBuilt => seg.dynamic = first[1].seg.dynamic
    /\ SecondFselfLeft => fselfFile.entries = first[1].fself.entries
    /\ first # <<>> => err # "panic"

\* C24: the second conversion lists every needed library twice in its
\* dynamic table, the offsets of the first conversion being still recorded.
C24_NeededListedTwice ==
    /\ SecondSegmentBuilt
    /\ Len(inp.needed) > 0
    /\ Len(g.libraryOffsets) = 2 * Len(inp.needed)
    /\ Len(seg.dynamic) > Len(first[1].seg.dynamic)

\* C24: the second CreateFSELF, with the entries of the first still in the
\* list, panics on an entry that has no data.
C24_SecondCreatePanics ==
    /\ first # <<>>
    /\ pc = "exited" /\ err = "panic"
    /\ Len(selfEntries) = 2 * Len(first[1].fself.entries)
    /\ fselfFile.header # <<>>
    /\ fselfFile.header[1].NumEntries = Len(selfEntries)
    /\ Len(fselfFile.segments) < Len(selfEntries)

(***************************************************************************)
(* The headers of the dynamic table and of the dynlib data                 *)
(***************************************************************************)
\* The program header table is in the file, whole
TableWritten == pc \in {"Close", "CreateFSELF"} /\ err = ""

DynEntrySize == 16

EmittedOfType(type) == SelectSeq(oelfFile.content.phtab, LAMBDA p : p.Type = type)

DynamicHeaderPatched(p) ==
    /\ p.Off = InputSize + seg.tableOffsets.dynamicTable
    /\ p.Vaddr = p.Off
    /\ p.Paddr = p.Off
    /\ p.Filesz = DynEntrySize * Len(seg.dynamic)
    /\ p.Memsz = p.Filesz

\* C25: in the program header table written to the file, PT_DYNAMIC has
\* offset, virtual and physical address at the dynamic table of the dynlib
\* data (its offset in the segment added to the offset of the segment) and
\* file and memory size of the bytes of that table; SCE_DYNLIBDATA has the
\* size of the input file as offset and the size of the segment as file size.
C25_HeadersPointAtDynlibData ==
    TableWritten =>
        /\ g.offsetOfDynlibData = InputSize
        /\ \A i \in 1..Len(EmittedOfType(PT_DYNAMIC)) :
                DynamicHeaderPatched(EmittedOfType(PT_DYNAMIC)[i])
        /\ Len(EmittedOfType(PT_SCE_DYNLIBDATA)) = 1
        /\ EmittedOfType(PT_SCE_DYNLIBDATA)[1].Off = InputSize
        /\ EmittedOfType(PT_SCE_DYNLIBDATA)[1].Filesz = seg.size
        /\ seg.size = seg.tableOffsets.dynamicTable + DynEntrySize * Len(seg.dynamic)
        /\ oelfFile.content.size = InputSize + seg.size

\* C25: a table is written whose PT_DYNAMIC header was moved from the place
\* the input gave it to the dynamic table of the dynlib data.
C25_DynamicHeaderMoved ==
    /\ TableWritten
    /\ Len(EmittedOfType(PT_DYNAMIC)) = 1
    /\ EmittedOfType(PT_DYNAMIC)[1].Off > InputSize
    /\ EmittedOfType(PT_DYNAMIC)[1].Filesz > 256
    /\ Len(inp.needed) > 0

(***************************************************************************)
(* Inputs without a PT_GNU_RELRO header                                    *)
(***************************************************************************)
NoRelroHeader == getProgramHeader(inp.progs, PT_GNU_RELRO, PF_R) = <<>>

\* The input's PT_LOAD headers that are read-write or read-execute
InputLoads == SelectSeq(inp.progs, LAMBDA p : IsRW(p) \/ IsRX(p))

\* The header p of the input is among the built ones with sizes no smaller
KeptUnshrunk(p) ==
    \E i \in 1..Len(orbisElf.ProgramHeaders) :
        /\ orbisElf.ProgramHeaders[i].Type = p.Type
        /\ orbisElf.ProgramHeaders[i].Flags = p.Flags
        /\ orbisElf.ProgramHeaders[i].Filesz >= p.Filesz
        /\ orbisElf.ProgramHeaders[i].Memsz >= p.Memsz

\* C26: on an input with no PT_GNU_RELRO header GenerateProgramHeaders
\* returns without a panic, its headers have no SCE_RELRO, and every
\* read-write and read-execute PT_LOAD of the input is kept, none smaller.
C26_BuildsWithoutRelroHeader ==
    NoRelroHeader =>
        /\ ~(HeadersPanicked /\ seg # NoSegment)
        /\ HeadersBuilt =>
              /\ \A i \in 1..Len(orbisElf.ProgramHeaders) :
                    orbisElf.ProgramHeaders[i].Type # PT_SCE_RELRO
              /\ \A k \in 1..Len(InputLoads) : KeptUnshrunk(InputLoads[k])

\* C26: the dynlib data of an input with no PT_GNU_RELRO header is in the
\* file, and GenerateProgramHeaders ended the run by a panic.
C26_PanicsWithoutRelroHeader ==
    /\ NoRelroHeader
    /\ HeadersPanicked
    /\ seg # NoSegment
    /\ oelfFile.content.dynlib = <<seg>>
    /\ oelfFile.content.phtab = <<>>

\* C26: with the header, the headers are built
C26_BuildsWithRelroHeader ==
    /\ ~NoRelroHeader
    /\ HeadersBuilt
    /\ \A k \in 1..Len(InputLoads) : IsRX(InputLoads[k]) => KeptUnshrunk(InputLoads[k])

(***************************************************************************)
(* The payloads and the bytes written before them                          *)
(***************************************************************************)
\* CreateFSELF has written an fSELF with payloads
PayloadsWritten == FselfWritten /\ fselfFile.segments # <<>>

C27_HeaderSizeIsWritten ==
    PayloadsWritten =>
        fselfFile.header[1].HeaderSize
          = fselfFile.sequential - SELF_META_BLOCK_SIZE * Len(fselfFile.entries)
            - SELF_META_FOOTER_SIZE - fselfFile.signature[1].size

(***************************************************************************)
(* The names of the symbol table and the NID table                         *)
(***************************************************************************)
\* The symbol each entry of the emitted symbol table from index 2 on was
\* written for, in table order: the undefined dynamic symbols, Need_sceLibc,
\* the exported symbols of a library
EmittedFor ==
    [k \in 1..Len(UndefinedSymbols) |-> UndefinedSymbols[k].Name]
    \o (IF g.needSceLibcIndex >= 0 THEN <<"Need_sceLibc">> ELSE <<>>)
    \o (IF inp.isLib
        THEN [k \in 1..Len(SelectSeq(Symbols(inp), IsExported)) |->
                    SelectSeq(Symbols(inp), IsExported)[k].Name]
        ELSE <<>>)

\* writeNIDTable goes through the same symbols in the same order: the NID
\* entry at place k was written for the symbol of EmittedFor[k].  Its offset
\* in the string table:
NidOffsetAt(k) ==
    g.offsetOfNidTable + SumSeq([h \in 1..(k - 1) |-> seg.nids[h].size])

NameIsNidOffset(k) ==
    /\ k <= Len(seg.nids)
    /\ seg.nids[k].sym = EmittedFor[k]
    /\ SymbolAt(k + 1).Name = NidOffsetAt(k)

\* C28: the name field of every symbol table entry written for a named
\* undefined symbol, for Need_sceLibc or for an exported symbol is the offset
\* in the string table of the first byte of the NID entry of that symbol,
\* whatever the names, a literal NID of other than 11 characters included.
C28_NameIsOffsetOfNidEntry ==
    SegmentBuilt =>
        \A k \in 1..Len(EmittedFor) : EmittedFor[k] # "" => NameIsNidOffset(k)

\* C28: a symbol that follows one with a literal NID shorter than 11
\* characters has a name field behind the first byte of its NID entry
C28_NameBehindShortLiteral ==
    /\ SegmentBuilt
    /\ \E k \in 2..Len(EmittedFor) :
            /\ EmittedFor[k] # ""
            /\ HasPrefix(EmittedFor[k - 1], NidPrefix)
            /\ \A h \in 1..(k - 1) : EmittedFor[h] # ""
            /\ seg.nids[k].sym = EmittedFor[k]
            /\ SymbolAt(k + 1).Name > NidOffsetAt(k)

\* C28: a symbol that follows an empty-named undefined symbol, which has an
\* NID entry and no counted symbol entry, has a name field before its NID entry
C28_NameBeforeEntryAfterEmpty ==
    /\ SegmentBuilt
    /\ \E k \in 2..Len(EmittedFor) :
            /\ EmittedFor[k] # ""
            /\ EmittedFor[k - 1] = ""
            /\ \A h \in 1..Len(EmittedFor) : ~HasPrefix(EmittedFor[h], NidPrefix)
            /\ seg.nids[k].sym = EmittedFor[k]
            /\ SymbolAt(k + 1).Name < NidOffsetAt(k)

\* C28: when every NID is a hash and no undefined symbol is empty-named, the
\* name fields are the offsets of the NID entries
C28_HashedNamesPointAtEntries ==
    (/\ SegmentBuilt
     /\ \A h \in 1..Len(EmittedFor) :
            EmittedFor[h] # "" /\ ~HasPrefix(EmittedFor[h], NidPrefix))
    => \A k \in 1..Len(EmittedFor) : NameIsNidOffset(k)

C28_HashedNamesBuilt ==
    /\ SegmentBuilt /\ inp.isLib /\ g.needSceLibcIndex >= 0
    /\ Len(UndefinedSymbols) > 0 /\ Len(EmittedFor) > Len(UndefinedSymbols) + 1
    /\ \A h \in 1..Len(EmittedFor) :
            EmittedFor[h] # "" /\ ~HasPrefix(EmittedFor[h], NidPrefix)

(***************************************************************************)
(* The relocations of Need_sceLibc                                         *)
(***************************************************************************)
\* The relocations written for Need_sceLibc: the last of the table
NeedLibcRelocations ==
    SubSeq(seg.relocations, Len(seg.relocations) - NeedLibcEntries + 1,
           Len(seg.relocations))

\* Index (from 0) of the entry of Need_sceLibc in the emitted symbol table:
\* behind the two leading entries and one entry for each undefined symbol
NeedLibcEmittedAt == 2 + Len(UndefinedSymbols)

NeedLibcEmitted ==
    /\ SegmentBuilt /\ LibcIsModule
    /\ g.needSceLibcIndex >= 0
    /\ SymbolAt(NeedLibcEmittedAt).Info = STB_GLOBAL * 16 + STT_OBJECT
    /\ seg.nids[Len(UndefinedSymbols) + 1].sym = "Need_sceLibc"

\* C29: when libc is among the modules, every relocation written for
\* Need_sceLibc has as its symbol index the index at which the entry of
\* Need_sceLibc is in the symbol table, the two leading entries and the
\* placeholders of empty-named undefined symbols counted.
C29_RelocationsNameNeedLibc ==
    (SegmentBuilt /\ LibcIsModule) =>
        /\ NeedLibcEmitted
        /\ Len(NeedLibcRelocations) = (IF inp.isLib THEN 1 ELSE 2)
        /\ \A r \in 1..Len(NeedLibcRelocations) :
                /\ NeedLibcRelocations[r].Info.type = R_AMD64_64
                /\ NeedLibcRelocations[r].Info.sym = NeedLibcEmittedAt

\* C29: with a placeholder in the table the relocations name the entry
\* before that of Need_sceLibc
C29_RelocationNamesEntryBefore ==
    /\ NeedLibcEmitted
    /\ EmptyNamedBefore(Len(UndefinedSymbols)) = 1
    /\ \A r \in 1..Len(NeedLibcRelocations) :
            NeedLibcRelocations[r].Info.sym = NeedLibcEmittedAt - 1

\* C29: without empty-named undefined symbols the relocations name the
\* entry of Need_sceLibc
C29_WithoutPlaceholders ==
    (SegmentBuilt /\ LibcIsModule /\ EmptyNamedBefore(Len(UndefinedSymbols)) = 0) =>
        /\ NeedLibcEmitted
        /\ \A r \in 1..Len(NeedLibcRelocations) :
                NeedLibcRelocations[r].Info.sym = NeedLibcEmittedAt

C29_NamedSymbolsBeforeNeedLibc ==
    /\ NeedLibcEmitted
    /\ Len(UndefinedSymbols) > 0
    /\ EmptyNamedBefore(Len(UndefinedSymbols)) = 0
    /\ NeedLibcRelocations[1].Info.sym = NeedLibcEmittedAt

(***************************************************************************)
(* The ids of the NID entries and of the import entries                    *)
(***************************************************************************)
\* The strings of the string table that start at the offset
StringsAt(offset) ==
    {seg.strs[i] : i \in {h \in 1..Len(seg.strs) : StringOffsets(seg.strs, 0)[h] = offset}}

\* The names that the dynamic entries of the tag with the id point at
NamesOfId(tag, id) ==
    UNION {StringsAt(seg.dynamic[i].lo) :
            i \in {h \in 1..Len(seg.dynamic) :
                    seg.dynamic[h].tag = tag /\ seg.dynamic[h].hi \div 65536 = id}}

\* The library the symbol was resolved to, the first of the index that lists
\* it, and the module of that library
ResolvedLibraryOf(name) ==
    LET lsd == orbisElf.LibrarySymbolDictionary
    IN  lsd[CHOOSE i \in 1..Len(lsd) :
                /\ Contains(lsd[i].val, name)
                /\ \A j \in 1..(i - 1) : ~Contains(lsd[j].val, name)].key
ResolvedModuleOf(name) == Get(orbisElf.LibraryModuleDictionary, ResolvedLibraryOf(name))

\* The name string of a library or module: its name without _stub
NameString(name) == ReplaceFirst(name, "_stub", "")

IdsNameResolved(j) ==
    /\ NamesOfId("DT_SCE_IMPORT_LIB", seg.nids[j].lib)
         = {NameString(ResolvedLibraryOf(UndefinedSymbols[j].Name))}
    /\ NamesOfId("DT_SCE_IMPORT_MODULE", seg.nids[j].mod)
         = {NameString(ResolvedModuleOf(UndefinedSymbols[j].Name))}

\* C30: the library id and the module id in the NID entry of every imported
\* symbol are the ids of the SCE_IMPORT_LIB and SCE_IMPORT_MODULE entries of
\* the dynamic table whose name offsets point at the names of the library and
\* of the module the symbol was resolved to, also when a library is hosted
\* by a module of another name.
C30_IdsAreThoseOfImportEntries ==
    SegmentBuilt =>
        \A j \in 1..Len(UndefinedSymbols) :
            /\ seg.nids[j].sym = UndefinedSymbols[j].Name
            /\ IdsNameResolved(j)

\* C30: a symbol of libScePosix, whose module is libkernel: library id 3
\* behind the modules libkernel and libc, module id 1
C30_HostedLibraryHasOwnId ==
    /\ SegmentBuilt
    /\ \E j \in 1..Len(UndefinedSymbols) :
            /\ seg.nids[j].sym = "sP"
            /\ seg.nids[j].lib = 3 /\ seg.nids[j].mod = 1
            /\ ResolvedLibraryOf("sP") = "libScePosix"
            /\ ResolvedModuleOf("sP") = "libkernel"
            /\ IdsNameResolved(j)

\* C30: behind a module with _stub in its name the library id of a symbol of
\* libScePosix is that of the import entry of another name
C30_IdOfAnotherLibrary ==
    /\ SegmentBuilt
    /\ Keys(orbisElf.LibrarySymbolDictionary) = <<"libkernel", "libSceFoo_stub", "libScePosix">>
    /\ \E j \in 1..Len(UndefinedSymbols) :
            /\ seg.nids[j].sym = "sP"
            /\ ResolvedLibraryOf("sP") = "libScePosix"
            /\ seg.nids[j].lib = 3
            /\ NamesOfId("DT_SCE_IMPORT_LIB", 3) = {"libSceFoo_"}
            /\ NamesOfId("DT_SCE_IMPORT_LIB", 4) = {"libScePosix"}

\* C30: when no needed library has stub in its name the ids are those of the
\* import entries
C30_WithoutStubNames ==
    (SegmentBuilt /\ ~Contains(inp.needed, StubLibrary)) =>
        \A j \in 1..Len(UndefinedSymbols) :
            /\ seg.nids[j].sym = UndefinedSymbols[j].Name
            /\ IdsNameResolved(j)

\* C30: the ids of a symbol of the library with _stub in its name, which is
\* a module, are those of its import entries
C30_StubModuleHasItsIds ==
    /\ SegmentBuilt
    /\ \E j \in 1..Len(UndefinedSymbols) :
            /\ seg.nids[j].sym = "sF"
            /\ ResolvedLibraryOf("sF") = "libSceFoo_stub"
            /\ IdsNameResolved(j)
            /\ NamesOfId("DT_SCE_IMPORT_LIB", seg.nids[j].lib) = {"libSceFoo"}

====
